---- MODULE Spec2Model ----
(***************************************************************************)
(* Model of the SPI flash programmer firmware (spi_flash_programmer.ino):  *)
(* the serial command dispatcher, the hex codec, the page buffer and its   *)
(* CRC-32, and the flash command sequencer driving a SPI NOR flash chip.   *)
(*                                                                         *)
(* Bytes are ASCII codes / 0..255.  A uint32_t is a pair <<hi16, lo16>>.   *)
(* The firmware suspends only while it waits for a serial byte or for the  *)
(* chip's busy bit; one action is the code between two such points.        *)
(***************************************************************************)
EXTENDS Integers, Sequences, FiniteSets, TLC

----------------------------------------------------------------------------
(* Bounds of the model.                                                    *)

\* Bytes in a page.  The firmware has PAGE_SIZE 256 (line 39); the model
\* runs the same loops over a shorter page.
PAGE_SIZE == 2
\* Pages of the modelled chip; addresses beyond it wrap.
ChipPages == 32
\* Longest time, in status reads, the chip stays busy when it is not stuck.
MaxBusy == 1
\* Times the host puts bytes on the wire in one run.
MaxCmds == 2
\* Status polls recorded against a chip that stays busy forever.
MaxPoll == MaxBusy + 2

----------------------------------------------------------------------------
(* Program constants.                                                      *)

COMMAND_HELLO == 62
COMMAND_HELP == 63
COMMAND_BUFFER_CRC == 104
COMMAND_BUFFER_LOAD == 108
COMMAND_BUFFER_STORE == 115
COMMAND_FLASH_READ == 114
COMMAND_FLASH_WRITE == 119
COMMAND_FLASH_ERASE_SECTOR == 107
COMMAND_FLASH_ERASE_ALL == 110
COMMAND_WRITE_PROTECTION_ENABLE == 112
COMMAND_WRITE_PROTECTION_DISABLE == 117
COMMAND_WRITE_PROTECTION_CHECK == 120
COMMAND_STATUS_REGISTER_READ == 121
COMMAND_ID_REGISTER_READ == 105
COMMAND_ERROR == 33
COMMAND_SET_CS == 42
COMMAND_SET_OUTPUT == 111

WRITE_PROTECTION_NONE == 0
WRITE_PROTECTION_PARTIAL == 1
WRITE_PROTECTION_FULL == 2
WRITE_PROTECTION_CONFIGURATION_NONE == 0
WRITE_PROTECTION_CONFIGURATION_LOCKED == 2

SECTOR_SIZE == 4096

\* SECTOR_SIZE / PAGE_SIZE of the source: 4096 / 256.
PAGES_PER_SECTOR == SECTOR_SIZE \div 256

\* SPI opcodes
WREN == 6
RDSR == 5
RDSR2 == 53
RDSR3 == 21
WRSR == 1
WRSR2 == 49
READ == 3
WRITE == 2
SECTOR_ERASE == 32
CHIP_ERASE == 199
JEDECIDR == 159

\* Status register masks
WPS == 262144
CP == 1024
SRP1 == 256
BP == 28

\* The board's default slave-select pin.
SS == 10

VERSION ==
  <<83, 80, 73, 32, 70, 108, 97, 115, 104, 32, 112, 114, 111, 103, 114, 97,
    109, 109, 101, 114, 32, 118, 49, 46, 48>>

\* The lines COMMAND_HELP prints, each with Serial.println.
HelpLines ==
  <<
     VERSION,
     <<32, 32, 110, 32, 32, 32, 32, 32, 32, 32, 32, 32, 58, 32, 101, 114, 97, 115, 101, 32, 99, 104, 105, 112>>,
     <<32, 32, 107, 88, 88, 88, 88, 88, 88, 88, 88, 32, 58, 32, 101, 114, 97, 115, 101, 32, 52, 107, 32, 115, 101, 99, 116, 111, 114, 32, 88, 88, 88, 88, 88, 88, 88, 88, 32, 40, 104, 101, 120, 41>>,
     <<>>,
     <<32, 32, 114, 88, 88, 88, 88, 88, 88, 88, 88, 32, 58, 32, 114, 101, 97, 100, 32, 97, 32, 112, 97, 103, 101, 32, 88, 88, 88, 88, 88, 88, 88, 88, 32, 40, 104, 101, 120, 41, 32, 116, 111, 32, 98, 117, 102, 102, 101, 114>>,
     <<32, 32, 119, 88, 88, 88, 88, 88, 88, 88, 88, 32, 58, 32, 119, 114, 105, 116, 101, 32, 98, 117, 102, 102, 101, 114, 32, 116, 111, 32, 97, 32, 112, 97, 103, 101, 32, 88, 88, 88, 88, 88, 88, 88, 88, 32, 40, 104, 101, 120, 41>>,
     <<>>,
     <<32, 32, 112, 32, 32, 32, 32, 32, 32, 32, 32, 32, 58, 32, 101, 110, 97, 98, 108, 101, 32, 119, 114, 105, 116, 101, 32, 112, 114, 111, 116, 101, 99, 116, 105, 111, 110>>,
     <<32, 32, 117, 32, 32, 32, 32, 32, 32, 32, 32, 32, 58, 32, 100, 105, 115, 97, 98, 108, 101, 32, 119, 114, 105, 116, 101, 32, 112, 114, 111, 116, 101, 99, 116, 105, 111, 110>>,
     <<32, 32, 120, 32, 32, 32, 32, 32, 32, 32, 32, 32, 58, 32, 99, 104, 101, 99, 107, 32, 119, 114, 105, 116, 101, 32, 112, 114, 111, 116, 101, 99, 116, 105, 111, 110>>,
     <<32, 32, 121, 32, 32, 32, 32, 32, 32, 32, 32, 32, 58, 32, 114, 101, 97, 100, 32, 115, 116, 97, 116, 117, 115, 32, 114, 101, 103, 105, 115, 116, 101, 114>>,
     <<32, 32, 105, 32, 32, 32, 32, 32, 32, 32, 32, 32, 58, 32, 114, 101, 97, 100, 32, 105, 100, 32, 114, 101, 103, 105, 115, 116, 101, 114>>,
     <<>>,
     <<32, 32, 104, 32, 32, 32, 32, 32, 32, 32, 32, 32, 58, 32, 112, 114, 105, 110, 116, 32, 98, 117, 102, 102, 101, 114, 32, 67, 82, 67, 45, 51, 50>>,
     <<32, 32, 108, 32, 32, 32, 32, 32, 32, 32, 32, 32, 58, 32, 100, 105, 115, 112, 108, 97, 121, 32, 116, 104, 101, 32, 98, 117, 102, 102, 101, 114, 32, 40, 105, 110, 32, 104, 101, 120, 41>>,
     <<32, 32, 115, 66, 66, 66, 66, 66, 66, 66, 66, 32, 58, 32, 108, 111, 97, 100, 32, 116, 104, 101, 32, 98, 117, 102, 102, 101, 114, 32, 119, 105, 116, 104, 32, 97, 32, 112, 97, 103, 101, 32, 115, 105, 122, 101, 32, 111, 102, 32, 100, 97, 116, 97, 32, 66, 66, 66, 66, 66, 66, 66, 66, 46, 46, 46>>,
     <<>>,
     <<32, 32, 42, 88, 88, 32, 32, 32, 32, 32, 32, 32, 58, 32, 115, 101, 116, 32, 73, 79, 32, 88, 88, 32, 97, 115, 32, 67, 83, 47, 83, 83>>,
     <<32, 32, 111, 88, 88, 89, 90, 32, 32, 32, 32, 32, 58, 32, 115, 101, 116, 32, 73, 79, 32, 88, 88, 32, 97, 115, 32, 111, 117, 116, 112, 117, 116, 44, 32, 115, 101, 116, 32, 118, 97, 108, 117, 101, 32, 90, 32, 105, 102, 32, 89, 33, 61, 48>>,
     <<>>,
     <<69, 120, 97, 109, 112, 108, 101, 115, 58>>,
     <<32, 32, 114, 48, 48, 48, 48, 51, 55, 48, 48, 32, 32, 32, 32, 32, 32, 114, 101, 97, 100, 32, 100, 97, 116, 97, 32, 102, 114, 111, 109, 32, 112, 97, 103, 101, 32, 48, 120, 51, 55, 48, 48, 32, 105, 110, 116, 111, 32, 98, 117, 102, 102, 101, 114>>,
     <<32, 32, 115, 99, 97, 102, 101, 46, 46, 46, 51, 55, 51, 55, 32, 32, 32, 108, 111, 97, 100, 32, 116, 104, 101, 32, 98, 117, 102, 102, 101, 114, 32, 119, 105, 116, 104, 32, 97, 32, 112, 97, 103, 101, 32, 111, 102, 32, 100, 97, 116, 97, 44, 32, 102, 105, 114, 115, 116, 32, 98, 121, 116, 101, 32, 105, 115, 32, 48, 120, 99, 97, 32, 46, 46, 46>>
  >>

\* What Serial.println adds to a line.
CRLF == <<13, 10>>

Byte == 0 .. 255

----------------------------------------------------------------------------
(* C integer operators on naturals.                                        *)

RECURSIVE BitAnd(_, _)
BitAnd(a, b) ==
  IF a = 0 \/ b = 0 THEN 0
  ELSE (a % 2) * (b % 2) + 2 * BitAnd(a \div 2, b \div 2)

RECURSIVE BitOr(_, _)
BitOr(a, b) ==
  IF a = 0 THEN b
  ELSE IF b = 0 THEN a
  ELSE (IF (a % 2) + (b % 2) > 0 THEN 1 ELSE 0) + 2 * BitOr(a \div 2, b \div 2)

RECURSIVE BitXor(_, _)
BitXor(a, b) ==
  IF a = 0 THEN b
  ELSE IF b = 0 THEN a
  ELSE ((a + b) % 2) + 2 * BitXor(a \div 2, b \div 2)

\* ~m within an 8-bit operand.
Not8(m) == 255 - (m % 256)

\* uint32_t as <<hi16, lo16>>.
U32Zero == <<0, 0>>
U32Xor(x, y) == <<BitXor(x[1], y[1]), BitXor(x[2], y[2])>>
U32Shr4(x) == <<x[1] \div 16, (x[2] \div 16) + (x[1] % 16) * 4096>>
U32Shl4(x) == <<(x[1] * 16 + x[2] \div 4096) % 65536, (x[2] * 16) % 65536>>
U32Not(x) == <<65535 - x[1], 65535 - x[2]>>

----------------------------------------------------------------------------
(* Hex codec.                                                              *)

\* Variant: a read_nibble whose lower-case range runs to 'n'.
read_nibble_to_n(c) ==
  IF c >= 48 /\ c <= 57 THEN (c - 48) + 0
  ELSE IF c >= 97 /\ c <= 110 THEN (c - 97) + 10
  ELSE IF c >= 65 /\ c <= 70 THEN (c - 65) + 10
  ELSE -1

\* read_nibble on the byte c that Serial.read returned: 0..15, or -1.
read_nibble(c) ==
  IF c >= 48 /\ c <= 57 THEN (c - 48) + 0
  ELSE IF c >= 97 /\ c <= 102 THEN (c - 97) + 10
  ELSE IF c >= 65 /\ c <= 70 THEN (c - 65) + 10
  ELSE -1

\* One round of read_hex_u8: result <<= 4; result |= tmp & 0x0F.
hex_u8_step(result, tmp) == BitOr((result * 16) % 256, BitAnd(tmp, 15))

\* One round of read_hex_u16.
hex_u16_step(result, tmp) == BitOr((result * 16) % 65536, BitAnd(tmp, 15))

\* One round of read_hex_u32.
hex_u32_step(result, tmp) ==
  LET s == U32Shl4(result) IN <<s[1], BitOr(s[2], BitAnd(tmp, 15))>>

\* The byte write_nibble sends.
write_nibble(value) == IF value < 10 THEN value + 48 - 0 ELSE value + 65 - 10

\* Variant: a write_hex_u8 that writes the low nibble first.
write_hex_u8_low_first(value) ==
  <<write_nibble(value % 16), write_nibble(value \div 16)>>

\* The bytes write_hex_u8 sends: two rounds of (value >> 4) & 0x0F, value <<= 4.
write_hex_u8(value) ==
  LET v1 == (value * 16) % 256
  IN <<write_nibble(BitAnd(value \div 16, 15)), write_nibble(BitAnd(v1 \div 16, 15))>>

\* The bytes write_hex_u16 sends: four rounds of (value >> 12) & 0x0F, value <<= 4.
write_hex_u16(value) ==
  LET v1 == (value * 16) % 65536
      v2 == (v1 * 16) % 65536
      v3 == (v2 * 16) % 65536
  IN <<write_nibble(BitAnd(value \div 4096, 15)), write_nibble(BitAnd(v1 \div 4096, 15)),
       write_nibble(BitAnd(v2 \div 4096, 15)), write_nibble(BitAnd(v3 \div 4096, 15))>>

----------------------------------------------------------------------------
(* CRC-32 of the page buffer.                                              *)

crc_table ==
  << <<0, 0>>,         <<7607, 4196>>,   <<15214, 8392>>,  <<9945, 12460>>,
     <<30428, 16784>>, <<27499, 20980>>, <<19890, 24920>>, <<20485, 28988>>,
     <<60856, 33568>>, <<61455, 37700>>, <<54998, 41960>>, <<52065, 45964>>,
     <<39780, 49840>>, <<34515, 53972>>, <<40970, 57976>>, <<48573, 61980>> >>

\* Variant: a crc_update that takes the high nibble of data first.
crc_update_high_first(crc, data) ==
  LET idx0 == BitAnd(BitXor(crc[2] % 256, data \div 16), 15)
      crc1 == U32Xor(crc_table[idx0 + 1], U32Shr4(crc))
      idx1 == BitAnd(BitXor(crc1[2] % 256, data \div 1), 15)
  IN U32Xor(crc_table[idx1 + 1], U32Shr4(crc1))

\* crc_update: two table rounds, low nibble of data first.
crc_update(crc, data) ==
  LET idx0 == BitAnd(BitXor(crc[2] % 256, data \div 1), 15)
      crc1 == U32Xor(crc_table[idx0 + 1], U32Shr4(crc))
      idx1 == BitAnd(BitXor(crc1[2] % 256, data \div 16), 15)
  IN U32Xor(crc_table[idx1 + 1], U32Shr4(crc1))

RECURSIVE crc_loop(_, _, _)
crc_loop(buf, i, crc) ==
  IF i < PAGE_SIZE THEN crc_loop(buf, i + 1, crc_update(crc, buf[i])) ELSE crc

\* crc_buffer over the PAGE_SIZE bytes of buf.
crc_buffer(buf) == U32Not(crc_loop(buf, 0, U32Not(U32Zero)))

\* The bytes dump_buffer_crc sends.
\* Variant: a dump_buffer_crc that writes the low 16 bits first.
dump_buffer_crc_low_first(buf) ==
  LET crc == crc_buffer(buf)
  IN write_hex_u16(crc[2]) \o write_hex_u16(crc[1])

dump_buffer_crc(buf) ==
  LET crc == crc_buffer(buf)
  IN write_hex_u16(BitAnd(crc[1], 65535)) \o write_hex_u16(BitAnd(crc[2], 65535))

RECURSIVE dump_loop(_, _)
dump_loop(buf, counter) ==
  IF counter < PAGE_SIZE
  THEN write_hex_u8(buf[counter]) \o dump_loop(buf, counter + 1)
  ELSE <<>>

\* The bytes dump_buffer sends.
dump_buffer(buf) == dump_loop(buf, 0)

----------------------------------------------------------------------------
(* The flash chip on the SPI bus: the environment of the firmware.         *)
(* chip = [flash, wel, busy, nextBusy, sr1, sr2, sr3, sel, frame].         *)

\* A busy time that never ends.
Forever == MaxBusy + 1

ErasedPage == [i \in 0 .. PAGE_SIZE - 1 |-> 255]

\* The three bytes the chip answers a JEDEC ID read with.
JedecId == <<239, 64, 24>>

\* The page a 3-byte address names: bits 23..8, wrapped to the chip's size.
ChipPageOf(a2, a1) == (a2 * 256 + a1) % ChipPages

\* The status byte the chip shifts out: register 1 with WEL in bit 1 and the
\* busy flag in bit 0.
ChipStatus1(chip) ==
  BitOr(BitAnd(chip.sr1, 252),
        (IF chip.wel THEN 2 ELSE 0) + (IF chip.busy > 0 THEN 1 ELSE 0))

\* The byte the chip shifts out during a transfer, given the bytes it has
\* received so far in this frame.
ChipMiso(chip) ==
  LET f == chip.frame IN
  IF ~chip.sel \/ f = <<>> THEN 255
  ELSE IF f[1] = RDSR THEN ChipStatus1(chip)
  ELSE IF f[1] = RDSR2 THEN chip.sr2
  ELSE IF f[1] = RDSR3 THEN chip.sr3
  ELSE IF f[1] = JEDECIDR THEN JedecId[((Len(f) - 1) % 3) + 1]
  ELSE IF f[1] = READ /\ Len(f) >= 4
       THEN LET lin == ChipPageOf(f[2], f[3]) * PAGE_SIZE
                        + (f[4] % PAGE_SIZE) + (Len(f) - 4)
                pg == (lin \div PAGE_SIZE) % ChipPages
            IN chip.flash[pg][lin % PAGE_SIZE]
  ELSE 255

\* The chip clocks in one byte: a status read uses up one unit of busy time.
ChipClock(chip, data) ==
  IF ~chip.sel THEN chip
  ELSE [chip EXCEPT
          !.frame = Append(@, data),
          !.busy = IF chip.frame # <<>> /\ chip.frame[1] = RDSR
                      /\ chip.busy > 0 /\ chip.busy # Forever
                   THEN chip.busy - 1 ELSE chip.busy]

RECURSIVE ProgramPage(_, _, _, _)
\* Page program: the data bytes from index k on are ANDed into the page,
\* wrapping inside it.
ProgramPage(page, f, off, k) ==
  IF 4 + k >= Len(f) THEN page
  ELSE LET pos == (off + k) % PAGE_SIZE
       IN ProgramPage([page EXCEPT ![pos] = BitAnd(page[pos], f[5 + k])], f, off, k + 1)

\* The chip acts on a complete frame when chip-select rises.
ChipDeselect(chip) ==
  LET f == chip.frame
      idle == [chip EXCEPT !.sel = FALSE, !.frame = <<>>]
      done == [idle EXCEPT !.wel = FALSE, !.busy = chip.nextBusy]
  IN
  IF ~chip.sel THEN chip
  ELSE IF f = <<WREN>> THEN [idle EXCEPT !.wel = TRUE]
  ELSE IF f = <<>> \/ ~chip.wel THEN idle
  ELSE IF f[1] = WRITE /\ Len(f) >= 5
       THEN LET pg == ChipPageOf(f[2], f[3])
            IN [done EXCEPT !.flash[pg] = ProgramPage(chip.flash[pg], f, f[4], 0)]
  ELSE IF f[1] = SECTOR_ERASE /\ Len(f) = 4
       THEN LET s == ChipPageOf(f[2], f[3]) \div PAGES_PER_SECTOR
            IN [done EXCEPT !.flash =
                  [p \in 0 .. ChipPages - 1 |->
                     IF p \div PAGES_PER_SECTOR = s THEN ErasedPage ELSE chip.flash[p]]]
  ELSE IF f = <<CHIP_ERASE>>
       THEN [done EXCEPT !.flash = [p \in 0 .. ChipPages - 1 |-> ErasedPage]]
  ELSE IF f[1] = WRSR /\ Len(f) = 2 THEN [done EXCEPT !.sr1 = BitAnd(f[2], 252)]
  ELSE IF f[1] = WRSR2 /\ Len(f) = 2 THEN [done EXCEPT !.sr2 = f[2]]
  ELSE idle

\* Chip-select falls.
ChipSelect(chip) == IF chip.sel THEN chip ELSE [chip EXCEPT !.sel = TRUE, !.frame = <<>>]

----------------------------------------------------------------------------
(* The board as the firmware drives it.                                    *)
(* m = [buffer, nCsIo, pinOut, pinHigh, log, chip, miso]; log is what the  *)
(* current command has done: <<"tx", byte>>, <<"pin", pin, level>>,         *)
(* <<"spi", mosi, miso>>, <<"delay", ms>>.                                 *)

TxEvents(bytes) == [k \in 1 .. Len(bytes) |-> <<"tx", bytes[k]>>]

\* Serial.print / Serial.write of the bytes.
Serial_print(m, bytes) == [m EXCEPT !.log = @ \o TxEvents(bytes)]

\* Serial.println of the bytes.
Serial_println(m, bytes) == Serial_print(m, bytes \o CRLF)

delay(m, ms) == [m EXCEPT !.log = Append(@, <<"delay", ms>>)]

pinMode(m, pin, mode) ==
  [m EXCEPT !.pinOut = IF mode = "OUTPUT" THEN @ \cup {pin} ELSE @ \ {pin}]

\* digitalWrite; the chip's select line is the pin nCsIo names.
digitalWrite(m, pin, level) ==
  [m EXCEPT
     !.pinHigh = IF level = "HIGH" THEN @ \cup {pin} ELSE @ \ {pin},
     !.log = Append(@, <<"pin", pin, level>>),
     !.chip = IF pin # m.nCsIo THEN @
              ELSE IF level = "LOW" THEN ChipSelect(@) ELSE ChipDeselect(@)]

\* SPI.transfer(data); the byte received is left in m.miso.
SPI_transfer(m, data) ==
  LET rcv == ChipMiso(m.chip)
  IN [m EXCEPT !.miso = rcv,
               !.log = Append(@, <<"spi", data, rcv>>),
               !.chip = ChipClock(@, data)]

RECURSIVE SPI_transfers(_, _)
\* SPI.transfer of each byte in turn.
SPI_transfers(m, bytes) ==
  IF bytes = <<>> THEN m ELSE SPI_transfers(SPI_transfer(m, Head(bytes)), Tail(bytes))

----------------------------------------------------------------------------
(* Chip implementation specific code.                                      *)

impl_enable_write(m) == SPI_transfer(m, WREN)

impl_erase_chip(m) == SPI_transfer(m, CHIP_ERASE)

\* Variant: the sector erase of the older revision, which sends the address
\* bytes a page read sends.
impl_erase_sector_full_address(m, address) ==
  SPI_transfers(m, <<SECTOR_ERASE,
                     BitAnd(address[2] \div 256, 255),
                     BitAnd(address[2], 255),
                     0>>)

impl_erase_sector(m, address) ==
  SPI_transfers(m, <<SECTOR_ERASE,
                     BitAnd(address[2], 4080) \div 16,
                     (BitAnd(address[2], 15) * 16) % 256,
                     0>>)

RECURSIVE read_loop(_, _)
read_loop(m, counter) ==
  IF counter < PAGE_SIZE
  THEN LET m1 == SPI_transfer(m, 255)
       IN read_loop([m1 EXCEPT !.buffer[counter] = m1.miso], counter + 1)
  ELSE m

\* Variant: a page read that sends the low 24 bits of the argument.
impl_read_page_byte_offset(m, address) ==
  read_loop(SPI_transfers(m, <<READ,
                               BitAnd(address[1], 255),
                               BitAnd(address[2] \div 256, 255),
                               BitAnd(address[2], 255)>>), 0)

impl_read_page(m, address) ==
  read_loop(SPI_transfers(m, <<READ,
                               BitAnd(address[2] \div 256, 255),
                               BitAnd(address[2], 255),
                               0>>), 0)

RECURSIVE write_loop(_, _)
write_loop(m, counter) ==
  IF counter < PAGE_SIZE
  THEN write_loop(SPI_transfer(m, m.buffer[counter]), counter + 1)
  ELSE m

\* Variant: a page program that sends the low 24 bits of the argument.
impl_write_page_byte_offset(m, address) ==
  write_loop(SPI_transfers(m, <<WRITE,
                                BitAnd(address[1], 255),
                                BitAnd(address[2] \div 256, 255),
                                BitAnd(address[2], 255)>>), 0)

\* Variant: a page program whose last address byte is the low byte of the
\* argument and not 0.
impl_write_page_low_byte(m, address) ==
  write_loop(SPI_transfers(m, <<WRITE,
                                BitAnd(address[2] \div 256, 255),
                                BitAnd(address[2], 255),
                                BitAnd(address[2], 255)>>), 0)

impl_write_page(m, address) ==
  write_loop(SPI_transfers(m, <<WRITE,
                                BitAnd(address[2] \div 256, 255),
                                BitAnd(address[2], 255),
                                0>>), 0)

\* One round of the loop of impl_wait_for_write_enable; statreg is m.miso.
wait_round(m) ==
  LET m1 == digitalWrite(m, m.nCsIo, "LOW")
      m2 == SPI_transfer(m1, RDSR)
      m3 == SPI_transfer(m2, RDSR)
  IN digitalWrite(m3, m.nCsIo, "HIGH")

\* One chip-select frame reading a status register with opcode op.
read_register(m, op) ==
  LET m1 == digitalWrite(m, m.nCsIo, "LOW")
      m2 == SPI_transfer(m1, op)
      m3 == SPI_transfer(m2, op)
  IN digitalWrite(m3, m.nCsIo, "HIGH")

\* One chip-select frame holding the bytes.
write_frame(m, bytes) ==
  digitalWrite(SPI_transfers(digitalWrite(m, m.nCsIo, "LOW"), bytes), m.nCsIo, "HIGH")

\* Variant: a check that classifies the block-protect bits without looking
\* at the complement-protect bit.
impl_write_protection_check_no_inversion(m) ==
  LET m1 == read_register(m, RDSR)
      m2 == read_register(m1, RDSR2)
      m3 == read_register(m2, RDSR3)
      statusRegister == BitOr(BitOr(m1.miso, m2.miso * 256), m3.miso * 65536)
      m4 == Serial_print(m3, write_hex_u8(
              IF BitAnd(statusRegister, SRP1) # 0
              THEN WRITE_PROTECTION_CONFIGURATION_LOCKED
              ELSE WRITE_PROTECTION_CONFIGURATION_NONE))
  IN
  IF BitAnd(statusRegister, WPS) # 0
  THEN Serial_print(m4, write_hex_u8(WRITE_PROTECTION_PARTIAL))
  ELSE IF BitAnd(statusRegister, BP) = BP
       THEN Serial_print(m4, write_hex_u8(WRITE_PROTECTION_FULL))
       ELSE Serial_print(m4, write_hex_u8(
              IF BitAnd(statusRegister, BP) # 0
              THEN WRITE_PROTECTION_PARTIAL ELSE WRITE_PROTECTION_NONE))

impl_write_protection_check(m) ==
  LET m1 == read_register(m, RDSR)
      m2 == read_register(m1, RDSR2)
      m3 == read_register(m2, RDSR3)
      statusRegister == BitOr(BitOr(m1.miso, m2.miso * 256), m3.miso * 65536)
      m4 == Serial_print(m3, write_hex_u8(
              IF BitAnd(statusRegister, SRP1) # 0
              THEN WRITE_PROTECTION_CONFIGURATION_LOCKED
              ELSE WRITE_PROTECTION_CONFIGURATION_NONE))
  IN
  IF BitAnd(statusRegister, WPS) # 0
  THEN Serial_print(m4, write_hex_u8(WRITE_PROTECTION_PARTIAL))
  ELSE IF BitAnd(statusRegister, CP) # 0
  THEN IF BitAnd(statusRegister, BP) = BP
       THEN Serial_print(m4, write_hex_u8(WRITE_PROTECTION_NONE))
       ELSE Serial_print(m4, write_hex_u8(
              IF BitAnd(statusRegister, BP) # 0
              THEN WRITE_PROTECTION_PARTIAL ELSE WRITE_PROTECTION_FULL))
  ELSE IF BitAnd(statusRegister, BP) = BP
       THEN Serial_print(m4, write_hex_u8(WRITE_PROTECTION_FULL))
       ELSE Serial_print(m4, write_hex_u8(
              IF BitAnd(statusRegister, BP) # 0
              THEN WRITE_PROTECTION_PARTIAL ELSE WRITE_PROTECTION_NONE))

\* Variant: a disable that writes status register 1 back as read.
impl_write_protection_disable_keeps_bp(m) ==
  LET m1 == read_register(m, RDSR)
      statusRegister == m1.miso
      m2 == read_register(m1, RDSR2)
      statusRegister2 == m2.miso
      m3 == delay(write_frame(m2, <<WREN>>), 10)
      m4 == write_frame(m3, <<WRSR, statusRegister>>)
      m5 == delay(write_frame(m4, <<WREN>>), 10)
      m6 == write_frame(m5, <<WRSR2, BitAnd(statusRegister2, Not8(CP \div 256))>>)
  IN delay(m6, 1)

\* Variant: a disable that writes both registers after a single WriteEnable.
impl_write_protection_disable_one_wren(m) ==
  LET m1 == read_register(m, RDSR)
      statusRegister == m1.miso
      m2 == read_register(m1, RDSR2)
      statusRegister2 == m2.miso
      m3 == delay(write_frame(m2, <<WREN>>), 10)
      m4 == write_frame(m3, <<WRSR, BitAnd(statusRegister, Not8(BP))>>)
      m6 == write_frame(m4, <<WRSR2, BitAnd(statusRegister2, Not8(CP \div 256))>>)
  IN delay(m6, 1)

\* impl_write_protection_disable up to its call of impl_wait_for_write_enable.
impl_write_protection_disable(m) ==
  LET m1 == read_register(m, RDSR)
      statusRegister == m1.miso
      m2 == read_register(m1, RDSR2)
      statusRegister2 == m2.miso
      m3 == delay(write_frame(m2, <<WREN>>), 10)
      m4 == write_frame(m3, <<WRSR, BitAnd(statusRegister, Not8(BP))>>)
      m5 == delay(write_frame(m4, <<WREN>>), 10)
      m6 == write_frame(m5, <<WRSR2, BitAnd(statusRegister2, Not8(CP \div 256))>>)
  IN delay(m6, 1)

\* Variant: an enable that leaves status register 2 alone.
impl_write_protection_enable_sr1_only(m) ==
  LET m1 == read_register(m, RDSR)
      statusRegister == m1.miso
      m2 == read_register(m1, RDSR2)
      m3 == delay(write_frame(m2, <<WREN>>), 10)
      m4 == write_frame(m3, <<WRSR, BitOr(statusRegister, BP)>>)
  IN delay(m4, 1)

\* impl_write_protection_enable up to its call of impl_wait_for_write_enable.
impl_write_protection_enable(m) ==
  LET m1 == read_register(m, RDSR)
      statusRegister == m1.miso
      m2 == read_register(m1, RDSR2)
      statusRegister2 == m2.miso
      m3 == delay(write_frame(m2, <<WREN>>), 10)
      m4 == write_frame(m3, <<WRSR, BitOr(statusRegister, BP)>>)
      m5 == delay(write_frame(m4, <<WREN>>), 10)
      m6 == write_frame(m5, <<WRSR2, BitAnd(statusRegister2, Not8(CP \div 256))>>)
  IN delay(m6, 1)

impl_status_register_read(m) ==
  LET m1 == read_register(m, RDSR)
      m2 == read_register(m1, RDSR2)
      m3 == read_register(m2, RDSR3)
  IN Serial_print(m3, write_hex_u8(3) \o write_hex_u8(m1.miso)
                      \o write_hex_u8(m2.miso) \o write_hex_u8(m3.miso))

impl_jedec_id_read(m) ==
  LET m1 == SPI_transfer(digitalWrite(m, m.nCsIo, "LOW"), JEDECIDR)
      m2 == Serial_print(m1, write_hex_u8(3))
      m3 == SPI_transfer(m2, 0)
      m4 == SPI_transfer(Serial_print(m3, write_hex_u8(m3.miso)), 0)
      m5 == SPI_transfer(Serial_print(m4, write_hex_u8(m4.miso)), 0)
  IN digitalWrite(Serial_print(m5, write_hex_u8(m5.miso)), m.nCsIo, "HIGH")

----------------------------------------------------------------------------
(* Flash operations of the sketch.                                         *)

\* Variant: a read_page that leaves the chip selected.
read_page_stays_selected(m, address) ==
  impl_read_page(digitalWrite(m, m.nCsIo, "LOW"), address)

read_page(m, address) ==
  digitalWrite(impl_read_page(digitalWrite(m, m.nCsIo, "LOW"), address), m.nCsIo, "HIGH")

\* Variant: a write_page that keeps the chip selected between WREN and WRITE.
write_page_one_frame(m, address) ==
  LET m1 == impl_enable_write(digitalWrite(m, m.nCsIo, "LOW"))
      m2 == delay(m1, 10)
      m3 == digitalWrite(impl_write_page(m2, address), m.nCsIo, "HIGH")
  IN delay(m3, 1)

\* write_page up to its call of impl_wait_for_write_enable.
write_page(m, address) ==
  LET m1 == digitalWrite(impl_enable_write(digitalWrite(m, m.nCsIo, "LOW")), m.nCsIo, "HIGH")
      m2 == delay(m1, 10)
      m3 == digitalWrite(impl_write_page(digitalWrite(m2, m.nCsIo, "LOW"), address),
                         m.nCsIo, "HIGH")
  IN delay(m3, 1)

\* erase_all up to its call of impl_wait_for_write_enable.
erase_all(m) ==
  LET m1 == digitalWrite(impl_enable_write(digitalWrite(m, m.nCsIo, "LOW")), m.nCsIo, "HIGH")
      m2 == delay(m1, 10)
      m3 == digitalWrite(impl_erase_chip(digitalWrite(m2, m.nCsIo, "LOW")), m.nCsIo, "HIGH")
  IN delay(m3, 1)

\* erase_sector up to its call of impl_wait_for_write_enable.
erase_sector(m, address) ==
  LET m1 == digitalWrite(impl_enable_write(digitalWrite(m, m.nCsIo, "LOW")), m.nCsIo, "HIGH")
      m2 == delay(m1, 10)
  IN digitalWrite(impl_erase_sector(digitalWrite(m2, m.nCsIo, "LOW"), address),
                  m.nCsIo, "HIGH")

----------------------------------------------------------------------------
(* State.                                                                  *)

VARIABLES
  buffer,    \* uint8_t buffer[PAGE_SIZE]
  nCsIo,     \* the pin used as chip-select
  pinOut,    \* pins in OUTPUT mode
  pinHigh,   \* pins whose output latch is HIGH
  chip,      \* the flash chip
  log,       \* serial and SPI events of the command in progress
  pc,        \* "idle" (waiting for a tag), "args" (in read_nibble), "poll"
             \* (in impl_wait_for_write_enable), "flush" (in Serial.flush)
  cmd,       \* the tag byte loop() read, 0 between commands
  rxByte,    \* the byte Serial.read() last returned, 0 between commands
  held,      \* the buffer as it was when loop() read the tag
  i,         \* nibbles read so far by the running read_hex_*
  result,    \* its accumulator, as a uint32 pair; then the decoded argument
  counter,   \* read_into_buffer's byte index
  polls,     \* rounds of the status poll so far
  rx,        \* bytes the host has sent that Serial.read has not returned yet
  ncmd,      \* frames the host has sent
  trip,      \* progress of a store / write / read round trip
  loaded     \* a ReadPage has run or a BufferStore has succeeded since setup()

vars == <<buffer, nCsIo, pinOut, pinHigh, chip, log, pc, cmd, rxByte, held, i, result,
          counter, polls, rx, ncmd, trip, loaded>>

\* The board as a step of the firmware finds it; the chip's next operation
\* will keep it busy for b status reads.
Board(b) ==
  [buffer |-> buffer, nCsIo |-> nCsIo, pinOut |-> pinOut, pinHigh |-> pinHigh,
   log |-> log, chip |-> [chip EXCEPT !.nextBusy = b], miso |-> 0]

\* The board after a step becomes the next state.
Becomes(m) ==
  /\ buffer' = m.buffer
  /\ nCsIo' = m.nCsIo
  /\ pinOut' = m.pinOut
  /\ pinHigh' = m.pinHigh
  /\ log' = m.log
  /\ chip' = [m.chip EXCEPT !.nextBusy = 0]

\* The bytes sent to the host, in order.
Out(l) == LET tx == SelectSeq(l, LAMBDA e : e[1] = "tx")
          IN [k \in 1 .. Len(tx) |-> tx[k][2]]

----------------------------------------------------------------------------
(* The host.                                                               *)

\* The host writes hex digits in lower or in upper case.
HostNibble(n, upper) == IF n < 10 THEN 48 + n ELSE IF upper THEN 55 + n ELSE 87 + n

HostHex(nibbles, upper) == [k \in 1 .. Len(nibbles) |-> HostNibble(nibbles[k], upper)]

RECURSIVE HostBytesHex(_, _)
HostBytesHex(bytes, upper) ==
  IF bytes = <<>> THEN <<>>
  ELSE <<HostNibble(Head(bytes) \div 16, upper), HostNibble(Head(bytes) % 16, upper)>>
       \o HostBytesHex(Tail(bytes), upper)

\* Arguments of k, r and w the host uses, as 8 nibbles.
Addrs ==
  { <<0, 0, 0, 0, 0, 0, 0, 1>>,
    <<10, 1, 11, 2, 3, 7, 0, 0>> }

\* Pages the host stores: CA FE ... and 00 11 22 ...
PayloadA == [k \in 1 .. PAGE_SIZE |-> <<202, 254, 55>>[((k - 1) % 3) + 1]]
PayloadB == [k \in 1 .. PAGE_SIZE |-> ((k - 1) * 17) % 256]

\* Bytes that are neither a hex digit nor a command: 'z', 'G', LF.
JunkBytes == {122, 71, 10}

NoArgTags ==
  { COMMAND_HELLO, COMMAND_HELP, COMMAND_FLASH_ERASE_ALL, COMMAND_BUFFER_LOAD,
    COMMAND_BUFFER_CRC, COMMAND_WRITE_PROTECTION_ENABLE,
    COMMAND_WRITE_PROTECTION_DISABLE, COMMAND_WRITE_PROTECTION_CHECK,
    COMMAND_STATUS_REGISTER_READ, COMMAND_ID_REGISTER_READ }

AddrTags == {COMMAND_FLASH_ERASE_SECTOR, COMMAND_FLASH_READ, COMMAND_FLASH_WRITE}

ArgTags == AddrTags \cup {COMMAND_BUFFER_STORE, COMMAND_SET_CS, COMMAND_SET_OUTPUT}

\* f with its k-th byte replaced by c.
Garble(f, k, c) == [f EXCEPT ![k] = c]

WellFormed ==
  { <<t>> : t \in NoArgTags }
  \cup { <<t>> \o HostHex(a, FALSE) : t \in AddrTags, a \in Addrs }
  \cup { <<COMMAND_FLASH_READ>> \o HostHex(<<0, 0, 0, 0, 3, 7, 0, 0>>, FALSE) }
  \cup { <<COMMAND_BUFFER_STORE>> \o HostBytesHex(PayloadA, FALSE),
         <<COMMAND_BUFFER_STORE>> \o HostBytesHex(PayloadA, TRUE),
         <<COMMAND_BUFFER_STORE>> \o HostBytesHex(PayloadB, FALSE) }
  \cup { <<COMMAND_SET_CS>> \o HostHex(p, FALSE) : p \in {<<0, 10>>, <<0, 9>>} }
  \cup { <<COMMAND_SET_OUTPUT>> \o HostHex(a, FALSE) :
           a \in {<<0, 10, 1, 0>>, <<0, 9, 1, 1>>, <<0, 9, 0, 1>>, <<0, 9, 8, 2>>} }

Malformed ==
  { Garble(<<COMMAND_FLASH_ERASE_SECTOR>> \o HostHex(<<0, 0, 0, 0, 0, 0, 0, 1>>, FALSE), 2, 122),
    Garble(<<COMMAND_FLASH_READ>> \o HostHex(<<0, 0, 0, 0, 0, 0, 0, 1>>, FALSE), 9, 110),
    Garble(<<COMMAND_FLASH_WRITE>> \o HostHex(<<0, 0, 0, 0, 0, 0, 0, 1>>, FALSE), 5, 71),
    Garble(<<COMMAND_FLASH_WRITE>> \o HostHex(<<0, 0, 0, 0, 0, 0, 0, 1>>, FALSE), 5,
           COMMAND_FLASH_ERASE_ALL),
    Garble(<<COMMAND_BUFFER_STORE>> \o HostBytesHex(PayloadB, FALSE), 2, 122),
    Garble(<<COMMAND_BUFFER_STORE>> \o HostBytesHex(PayloadB, FALSE), 2 * PAGE_SIZE + 1, 122),
    Garble(<<COMMAND_SET_CS>> \o HostHex(<<0, 9>>, FALSE), 3, 122),
    Garble(<<COMMAND_SET_OUTPUT>> \o HostHex(<<0, 9, 1, 0>>, FALSE), 4, 122),
    <<COMMAND_FLASH_READ, 48, 48, 48>>,
    <<48>>, <<COMMAND_ERROR>>, <<122>> }

\* Store, write and read back, sent back to back without waiting for the
\* replies; and so the write protection enabled, disabled and checked, and
\* disabled, enabled and checked.
Bursts ==
  { <<COMMAND_BUFFER_STORE>> \o HostBytesHex(PayloadA, FALSE)
      \o <<COMMAND_FLASH_WRITE>> \o HostHex(a, FALSE)
      \o <<COMMAND_FLASH_READ>> \o HostHex(a, FALSE) : a \in Addrs }
  \cup
  { <<COMMAND_WRITE_PROTECTION_ENABLE, COMMAND_WRITE_PROTECTION_DISABLE,
      COMMAND_WRITE_PROTECTION_CHECK>>,
    <<COMMAND_WRITE_PROTECTION_DISABLE, COMMAND_WRITE_PROTECTION_ENABLE,
      COMMAND_WRITE_PROTECTION_CHECK>> }

\* What the host may put on the wire in one go.
Frames == WellFormed \cup Malformed \cup Bursts

CommandTags == NoArgTags \cup ArgTags

----------------------------------------------------------------------------
(* setup()                                                                 *)

\* What setup() leaves in the buffer: DE AD BE EF repeated.
PoisonBuffer == [k \in 0 .. PAGE_SIZE - 1 |-> <<222, 173, 190, 239>>[(k % 4) + 1]]

\* A chip that holds data: every byte of every page is different.
PatternFlash == [p \in 0 .. ChipPages - 1 |->
                   [k \in 0 .. PAGE_SIZE - 1 |-> (p * 7 + k * 3 + 1) % 256]]

ErasedFlash == [p \in 0 .. ChipPages - 1 |-> ErasedPage]

\* What the chip may hold at power-up: flash contents, status registers 1..3.
InitChips ==
  { <<ErasedFlash, 0, 0, 0>>, <<PatternFlash, 28, 5, 0>>, <<ErasedFlash, 8, 4, 4>> }

TripNone == [stage |-> 0, P |-> <<>>, A |-> U32Zero, crc |-> <<>>]

Init ==
  /\ buffer = PoisonBuffer
  /\ nCsIo = SS
  /\ pinOut = {SS}
  /\ pinHigh = {SS}
  /\ \E c \in InitChips :
       chip = [flash |-> c[1], wel |-> FALSE, busy |-> 0, nextBusy |-> 0,
               sr1 |-> c[2], sr2 |-> c[3], sr3 |-> c[4], sel |-> FALSE, frame |-> <<>>]
  /\ log = <<>>
  /\ pc = "idle"
  /\ cmd = 0
  /\ rxByte = 0
  /\ held = <<>>
  /\ i = 0
  /\ result = U32Zero
  /\ counter = 0
  /\ polls = 0
  /\ rx = <<>>
  /\ ncmd = 0
  /\ trip = TripNone
  /\ loaded = FALSE

----------------------------------------------------------------------------
(* The host puts a frame on the wire.                                      *)

\* The host sends when the firmware waits for a byte, or after the firmware
\* has failed to answer for MaxPoll status polls.
HostSend ==
  /\ ncmd < MaxCmds
  /\ rx = <<>>
  /\ pc \in {"idle", "args"} \/ (pc = "poll" /\ polls = MaxPoll)
  /\ \E f \in Frames : rx' = f
  /\ ncmd' = ncmd + 1
  /\ UNCHANGED <<buffer, nCsIo, pinOut, pinHigh, chip, log, pc, cmd, rxByte, held, i,
                 result, counter, polls, trip, loaded>>

\* The host's digit c in lower case.
HostLower(c) == IF c \in 65 .. 70 THEN c + 32 ELSE c

\* The host has the reply to BufferLoad and sends its 2 * PAGE_SIZE digits
\* back as the argument of BufferStore, as they came or in lower case.
HostSendsBack ==
  /\ ncmd <= MaxCmds
  /\ rx = <<>>
  /\ pc = "flush"
  /\ cmd = COMMAND_BUFFER_LOAD
  /\ LET digits == SubSeq(Out(log), 2, 1 + 2 * PAGE_SIZE)
     IN \E lower \in BOOLEAN :
          rx' = <<COMMAND_BUFFER_STORE>>
                  \o [k \in 1 .. Len(digits) |->
                        IF lower THEN HostLower(digits[k]) ELSE digits[k]]
  /\ ncmd' = ncmd + 1
  /\ trip' = [stage |-> 4, P |-> buffer, A |-> U32Zero, crc |-> dump_buffer_crc(buffer)]
  /\ UNCHANGED <<buffer, nCsIo, pinOut, pinHigh, chip, log, pc, cmd, rxByte, held, i,
                 result, counter, polls, loaded>>

----------------------------------------------------------------------------
(* loop(): Serial.read() returns a tag.                                    *)

\* loop() has read the tag t.
Reads(t) ==
  /\ pc = "idle"
  /\ rx # <<>>
  /\ Head(rx) = t
  /\ rx' = Tail(rx)
  /\ cmd' = t
  /\ rxByte' = t
  /\ held' = buffer
  /\ ncmd' = ncmd

\* The command has written its reply: loop() goes on to Serial.flush().
Returns(m) ==
  /\ Becomes(m)
  /\ loaded' = (loaded \/ (Out(m.log) # <<>> /\ Out(m.log)[1] \in
                              {COMMAND_FLASH_READ, COMMAND_BUFFER_STORE}))
  /\ pc' = "flush"
  /\ i' = 0
  /\ counter' = 0
  /\ polls' = 0

\* The command goes on to impl_wait_for_write_enable.
Waits(m) ==
  /\ Becomes(m)
  /\ loaded' = loaded
  /\ pc' = "poll"
  /\ i' = 0
  /\ counter' = 0
  /\ polls' = 0

CmdHello ==
  /\ Reads(COMMAND_HELLO)
  /\ Returns(Serial_print(Serial_println(
               Serial_print(Board(0), <<COMMAND_HELLO>>), VERSION), <<COMMAND_HELLO>>))
  /\ result' = U32Zero
  /\ trip' = TripNone

CmdEraseAll ==
  /\ Reads(COMMAND_FLASH_ERASE_ALL)
  /\ \E b \in 0 .. Forever : Waits(erase_all(Board(b)))
  /\ result' = U32Zero
  /\ trip' = TripNone

\* k, r, w, s, * and o start to read their argument.
CmdArgument ==
  /\ \E t \in ArgTags : Reads(t)
  /\ pc' = "args"
  /\ log' = <<>>
  /\ i' = 0
  /\ result' = U32Zero
  /\ counter' = 0
  /\ polls' = 0
  /\ trip' = IF \/ Head(rx) = COMMAND_FLASH_WRITE /\ trip.stage = 1
                \/ Head(rx) = COMMAND_FLASH_READ /\ trip.stage = 2
                \/ Head(rx) = COMMAND_BUFFER_STORE /\ trip.stage = 4
             THEN trip ELSE TripNone
  /\ UNCHANGED <<buffer, nCsIo, pinOut, pinHigh, chip, loaded>>

CmdBufferLoad ==
  /\ Reads(COMMAND_BUFFER_LOAD)
  /\ Returns(Serial_println(Serial_print(Serial_print(Board(0), <<COMMAND_BUFFER_LOAD>>),
                                         dump_buffer(buffer)), <<>>))
  /\ result' = U32Zero
  /\ trip' = TripNone

CmdBufferCrc ==
  /\ Reads(COMMAND_BUFFER_CRC)
  /\ Returns(Serial_println(Serial_print(Serial_print(Board(0), <<COMMAND_BUFFER_CRC>>),
                                         dump_buffer_crc(buffer)), <<>>))
  /\ result' = U32Zero
  /\ trip' = TripNone

CmdWriteProtectionCheck ==
  /\ Reads(COMMAND_WRITE_PROTECTION_CHECK)
  /\ Returns(impl_write_protection_check(
               Serial_print(Board(0), <<COMMAND_WRITE_PROTECTION_CHECK>>)))
  /\ result' = U32Zero
  /\ trip' = IF trip.stage = 6 THEN [trip EXCEPT !.stage = 7]
             ELSE IF trip.stage = 10 THEN [trip EXCEPT !.stage = 11]
             ELSE TripNone

CmdWriteProtectionEnable ==
  /\ Reads(COMMAND_WRITE_PROTECTION_ENABLE)
  /\ \E b \in 0 .. Forever :
       Waits(impl_write_protection_enable(
               Serial_print(Board(b), <<COMMAND_WRITE_PROTECTION_ENABLE>>)))
  /\ result' = U32Zero
  /\ trip' = IF trip.stage = 9 THEN trip ELSE TripNone

CmdWriteProtectionDisable ==
  /\ Reads(COMMAND_WRITE_PROTECTION_DISABLE)
  /\ \E b \in 0 .. Forever :
       Waits(impl_write_protection_disable(
               Serial_print(Board(b), <<COMMAND_WRITE_PROTECTION_DISABLE>>)))
  /\ result' = U32Zero
  /\ trip' = IF trip.stage = 6 THEN trip ELSE TripNone

CmdStatusRegisterRead ==
  /\ Reads(COMMAND_STATUS_REGISTER_READ)
  /\ Returns(impl_status_register_read(
               Serial_print(Board(0), <<COMMAND_STATUS_REGISTER_READ>>)))
  /\ result' = U32Zero
  /\ trip' = TripNone

CmdIdRegisterRead ==
  /\ Reads(COMMAND_ID_REGISTER_READ)
  /\ Returns(impl_jedec_id_read(Serial_print(Board(0), <<COMMAND_ID_REGISTER_READ>>)))
  /\ result' = U32Zero
  /\ trip' = TripNone

RECURSIVE println_all(_, _)
println_all(m, lines) ==
  IF lines = <<>> THEN m ELSE println_all(Serial_println(m, Head(lines)), Tail(lines))

CmdHelp ==
  /\ Reads(COMMAND_HELP)
  /\ Returns(println_all(Board(0), HelpLines))
  /\ result' = U32Zero
  /\ trip' = TripNone

\* Variant: a switch with a default case that echoes the error tag.
CmdOther_EchoesError ==
  /\ \E t \in Byte \ CommandTags : Reads(t)
  /\ Returns(Serial_print(Board(0), <<COMMAND_ERROR>>))
  /\ result' = U32Zero
  /\ trip' = TripNone

\* No case of the switch matches: loop() goes straight to Serial.flush().
CmdOther ==
  /\ \E t \in Byte \ CommandTags : Reads(t)
  /\ Returns(Board(0))
  /\ result' = U32Zero
  /\ trip' = IF trip.stage = 8 /\ trip.A[2] > 1
             THEN [trip EXCEPT !.A = <<0, trip.A[2] - 1>>] ELSE TripNone

----------------------------------------------------------------------------
(* read_nibble() returns: one more digit of the argument.                  *)

\* Hex digits the running command's read_hex_* reads.
Width(t) ==
  IF t \in AddrTags THEN 8
  ELSE IF t = COMMAND_SET_OUTPUT THEN 4
  ELSE 2

\* result <<= 4; result |= tmp & 0x0F in the running read_hex_*.
hex_step(t, res, tmp) ==
  IF t \in AddrTags THEN hex_u32_step(res, tmp)
  ELSE IF t = COMMAND_SET_OUTPUT THEN <<0, hex_u16_step(res[2], tmp)>>
  ELSE <<0, hex_u8_step(res[2], tmp)>>

\* read_nibble() takes the byte at the head of rx.
ReadsNibble ==
  /\ pc = "args"
  /\ rx # <<>>
  /\ rx' = Tail(rx)
  /\ rxByte' = Head(rx)
  /\ UNCHANGED <<cmd, held, ncmd>>

\* What read_nibble() returns for that byte.
Tmp == read_nibble(Head(rx))

\* The value the running read_hex_* holds once it has taken that digit.
Argument == hex_step(cmd, result, Tmp)

\* The digit completes the argument of command t.
LastNibble(t) ==
  /\ ReadsNibble
  /\ cmd = t
  /\ Tmp # -1
  /\ i + 1 = Width(t)

\* Variant: the caller takes the failure of read_hex_u32 for success, as the
\* older revision does, and goes on with address 0.
ArgumentError_Proceeds ==
  /\ ReadsNibble
  /\ Tmp = -1
  /\ IF cmd = COMMAND_FLASH_READ
     THEN LET m == read_page(Board(0), U32Zero)
          IN Returns(Serial_print(Serial_print(m, <<COMMAND_FLASH_READ>>),
                                  dump_buffer_crc(m.buffer)))
     ELSE Returns(Serial_print(Board(0), <<COMMAND_ERROR>>))
  /\ result' = U32Zero
  /\ trip' = TripNone

RECURSIVE LeadingDigits(_, _)
\* How many of the first n bytes of s are hex digits, up to the first that
\* is not.
LeadingDigits(s, n) ==
  IF n = 0 \/ s = <<>> \/ read_nibble(Head(s)) = -1 THEN 0
  ELSE 1 + LeadingDigits(Tail(s), n - 1)

\* After a command tag rejected as a digit: the digits of the aborted
\* argument that are still to be read.
TripAborted ==
  LET n == LeadingDigits(Tail(rx), Width(cmd) - (i + 1))
  IN IF Head(rx) \in CommandTags /\ n > 0
     THEN [TripNone EXCEPT !.stage = 8, !.A = <<0, n>>] ELSE TripNone

\* Variant: the byte that is not a digit is left in the receive buffer.
ArgumentError_KeepsByte ==
  /\ pc = "args"
  /\ rx # <<>>
  /\ rx' = rx
  /\ rxByte' = Head(rx)
  /\ UNCHANGED <<cmd, held, ncmd>>
  /\ Tmp = -1
  /\ Returns(Serial_print(Board(0), <<COMMAND_ERROR>>))
  /\ result' = U32Zero
  /\ trip' = TripAborted

\* Not a hex digit: read_hex_* returns 0 and the command echoes the error.
ArgumentError ==
  /\ ReadsNibble
  /\ Tmp = -1
  /\ Returns(Serial_print(Board(0), <<COMMAND_ERROR>>))
  /\ result' = U32Zero
  /\ trip' = TripAborted

\* Variant: a read_nibble that does not wait, and takes the low four bits of
\* the "no data" result as a digit.
ArgumentDigit_NoWait ==
  /\ pc = "args"
  /\ IF rx = <<>>
     THEN rx' = rx /\ rxByte' = 255 /\ result' = hex_step(cmd, result, 15)
     ELSE rx' = Tail(rx) /\ rxByte' = Head(rx) /\ Tmp # -1 /\ result' = Argument
  /\ i + 1 < Width(cmd)
  /\ i' = i + 1
  /\ UNCHANGED <<cmd, held, ncmd>>
  /\ UNCHANGED <<buffer, nCsIo, pinOut, pinHigh, chip, log, pc, counter, polls, trip, loaded>>

\* A hex digit that is not the last of the argument.
ArgumentDigit ==
  /\ ReadsNibble
  /\ Tmp # -1
  /\ i + 1 < Width(cmd)
  /\ result' = Argument
  /\ i' = i + 1
  /\ UNCHANGED <<buffer, nCsIo, pinOut, pinHigh, chip, log, pc, counter, polls, trip, loaded>>

DoEraseSector ==
  /\ LastNibble(COMMAND_FLASH_ERASE_SECTOR)
  /\ result' = Argument
  /\ \E b \in 0 .. Forever : Waits(erase_sector(Board(b), Argument))
  /\ trip' = TripNone

\* The page of the chip that page number A of the host names.
HostPage(A) == ChipPageOf(A[2] \div 256, A[2] % 256)

\* Variant: a ReadPage that answers with the page in place of its CRC.
DoRead_DumpsBuffer ==
  /\ LastNibble(COMMAND_FLASH_READ)
  /\ result' = Argument
  /\ LET m == read_page(Board(0), Argument)
     IN Returns(Serial_print(Serial_print(m, <<COMMAND_FLASH_READ>>),
                             dump_buffer(m.buffer)))
  /\ trip' = IF trip.stage = 2 /\ trip.A = Argument
             THEN [trip EXCEPT !.stage = 3] ELSE TripNone

DoRead ==
  /\ LastNibble(COMMAND_FLASH_READ)
  /\ result' = Argument
  /\ LET m == read_page(Board(0), Argument)
     IN Returns(Serial_print(Serial_print(m, <<COMMAND_FLASH_READ>>),
                             dump_buffer_crc(m.buffer)))
  /\ trip' = IF trip.stage = 2 /\ trip.A = Argument
             THEN [trip EXCEPT !.stage = 3] ELSE TripNone

DoWrite ==
  /\ LastNibble(COMMAND_FLASH_WRITE)
  /\ result' = Argument
  /\ \E b \in 0 .. Forever : Waits(write_page(Board(b), Argument))
  /\ trip' = IF trip.stage = 1 /\ chip.flash[HostPage(Argument)] = ErasedPage
             THEN [trip EXCEPT !.stage = 2, !.A = Argument] ELSE TripNone

\* read_into_buffer stores a byte and goes on to read the next.
StoreByte ==
  /\ LastNibble(COMMAND_BUFFER_STORE)
  /\ counter + 1 < PAGE_SIZE
  /\ buffer' = [buffer EXCEPT ![counter] = Argument[2]]
  /\ counter' = counter + 1
  /\ i' = 0
  /\ result' = U32Zero
  /\ UNCHANGED <<nCsIo, pinOut, pinHigh, chip, log, pc, polls, trip, loaded>>

\* read_into_buffer stores the last byte and returns 1.
StoreLast ==
  /\ LastNibble(COMMAND_BUFFER_STORE)
  /\ result' = Argument
  /\ counter + 1 = PAGE_SIZE
  /\ LET m == [Board(0) EXCEPT !.buffer[counter] = Argument[2]]
     IN /\ Returns(Serial_print(Serial_print(m, <<COMMAND_BUFFER_STORE>>),
                                dump_buffer_crc(m.buffer)))
        /\ trip' = IF trip.stage = 4 THEN [trip EXCEPT !.stage = 5]
                    ELSE [stage |-> 1, P |-> m.buffer, A |-> U32Zero,
                          crc |-> dump_buffer_crc(m.buffer)]

\* Variant: a SetChipSelect that leaves the pin it gives up in output mode.
DoSetCs_KeepsOldOutput ==
  /\ LastNibble(COMMAND_SET_CS)
  /\ result' = Argument
  /\ LET tmp8 == Argument[2]
         m0 == Board(0)
         m2 == [m0 EXCEPT !.nCsIo = tmp8]
         m3 == digitalWrite(pinMode(m2, tmp8, "OUTPUT"), tmp8, "HIGH")
     IN Returns(Serial_print(IF tmp8 # nCsIo THEN m3 ELSE m0, <<COMMAND_SET_CS>>))
  /\ trip' = TripNone

DoSetCs ==
  /\ LastNibble(COMMAND_SET_CS)
  /\ result' = Argument
  /\ LET tmp8 == Argument[2]
         m0 == Board(0)
         m1 == IF nCsIo # SS THEN pinMode(m0, nCsIo, "INPUT") ELSE m0
         m2 == [m1 EXCEPT !.nCsIo = tmp8]
         m3 == digitalWrite(pinMode(m2, tmp8, "OUTPUT"), tmp8, "HIGH")
     IN Returns(Serial_print(IF tmp8 # nCsIo THEN m3 ELSE m0, <<COMMAND_SET_CS>>))
  /\ trip' = TripNone

\* Variant: a SetOutput that writes the level whatever the enable nibble is.
DoSetOutput_IgnoresEnable ==
  /\ LastNibble(COMMAND_SET_OUTPUT)
  /\ result' = Argument
  /\ LET tmp16 == Argument[2]
         m1 == pinMode(Board(0), tmp16 \div 256, "OUTPUT")
         m2 == IF BitAnd(tmp16, 15) # 0
               THEN digitalWrite(m1, tmp16 \div 256, "HIGH")
               ELSE digitalWrite(m1, tmp16 \div 256, "LOW")
     IN Returns(Serial_print(m2, <<COMMAND_SET_OUTPUT>>))
  /\ trip' = TripNone

DoSetOutput ==
  /\ LastNibble(COMMAND_SET_OUTPUT)
  /\ result' = Argument
  /\ LET tmp16 == Argument[2]
         m1 == pinMode(Board(0), tmp16 \div 256, "OUTPUT")
         m2 == IF BitAnd(tmp16, 240) # 0
               THEN IF BitAnd(tmp16, 15) # 0
                    THEN digitalWrite(m1, tmp16 \div 256, "HIGH")
                    ELSE digitalWrite(m1, tmp16 \div 256, "LOW")
               ELSE m1
     IN Returns(Serial_print(m2, <<COMMAND_SET_OUTPUT>>))
  /\ trip' = TripNone

----------------------------------------------------------------------------
(* impl_wait_for_write_enable(): one status read per step.                 *)

\* Variant: WritePage does not echo its tag.
EchoAfterErase == {COMMAND_FLASH_ERASE_ALL, COMMAND_FLASH_ERASE_SECTOR}

\* Commands that echo their tag after the wait.
EchoAfterWait ==
  {COMMAND_FLASH_ERASE_ALL, COMMAND_FLASH_ERASE_SECTOR, COMMAND_FLASH_WRITE}

\* Variant: a wait that gives up at the first status read with the busy bit
\* set, and lets the command echo.
PollBusy_GivesUp ==
  /\ pc = "poll"
  /\ polls < MaxPoll
  /\ LET m == wait_round(Board(0))
     IN /\ BitAnd(m.miso, 1) = 1
        /\ Returns(IF cmd \in EchoAfterWait THEN Serial_print(m, <<cmd>>) ELSE m)
  /\ UNCHANGED <<cmd, rxByte, held, result, rx, ncmd, trip>>

\* The status read has the busy bit set: the loop goes round again.
PollBusy ==
  /\ pc = "poll"
  /\ polls < MaxPoll
  /\ LET m == wait_round(Board(0))
     IN /\ BitAnd(m.miso, 1) = 1
        /\ Becomes(m)
  /\ polls' = polls + 1
  /\ UNCHANGED <<pc, cmd, rxByte, held, i, result, counter, rx, ncmd, trip, loaded>>

\* The status read has the busy bit clear: the wait and the command end.
PollReady ==
  /\ pc = "poll"
  /\ LET m == wait_round(Board(0))
     IN /\ BitAnd(m.miso, 1) # 1
        /\ Returns(IF cmd \in EchoAfterWait THEN Serial_print(m, <<cmd>>) ELSE m)
  /\ trip' = IF cmd = COMMAND_FLASH_WRITE THEN trip
             ELSE IF cmd = COMMAND_WRITE_PROTECTION_ENABLE
             THEN [TripNone EXCEPT !.stage = 6,
                                   !.P = IF trip.stage = 9
                                         THEN <<COMMAND_WRITE_PROTECTION_DISABLE>>
                                         ELSE <<>>]
             ELSE IF cmd = COMMAND_WRITE_PROTECTION_DISABLE
             THEN [TripNone EXCEPT !.stage = IF trip.stage = 6 THEN 10 ELSE 9]
             ELSE TripNone
  /\ UNCHANGED <<cmd, rxByte, held, result, rx, ncmd>>

----------------------------------------------------------------------------
(* Serial.flush() returns once the reply has left; loop() returns.          *)

\* Variant: loop() does not return after the reply: the sketch halts.
Flush_Halts ==
  /\ pc = "flush"
  /\ pc' = "halt"
  /\ log' = <<>>
  /\ cmd' = 0
  /\ rxByte' = 0
  /\ held' = <<>>
  /\ result' = U32Zero
  /\ UNCHANGED <<buffer, nCsIo, pinOut, pinHigh, chip, i, counter, polls, rx, ncmd, trip, loaded>>

Flush ==
  /\ pc = "flush"
  /\ pc' = "idle"
  /\ log' = <<>>
  /\ cmd' = 0
  /\ rxByte' = 0
  /\ held' = <<>>
  /\ result' = U32Zero
  /\ UNCHANGED <<buffer, nCsIo, pinOut, pinHigh, chip, i, counter, polls, rx, ncmd, trip, loaded>>

----------------------------------------------------------------------------

Next ==
  \/ HostSend
  \/ HostSendsBack
  \/ CmdHello
  \/ CmdEraseAll
  \/ CmdArgument
  \/ CmdBufferLoad
  \/ CmdBufferCrc
  \/ CmdWriteProtectionCheck
  \/ CmdWriteProtectionEnable
  \/ CmdWriteProtectionDisable
  \/ CmdStatusRegisterRead
  \/ CmdIdRegisterRead
  \/ CmdHelp
  \/ CmdOther
  \/ ArgumentError
  \/ ArgumentDigit
  \/ DoEraseSector
  \/ DoRead
  \/ DoWrite
  \/ StoreByte
  \/ StoreLast
  \/ DoSetCs
  \/ DoSetOutput
  \/ PollBusy
  \/ PollReady
  \/ Flush

Spec == Init /\ [][Next]_vars

\* A step of the sketch is possible: loop() has a byte to read, or the wait
\* can read the status again, or Serial.flush() can return.  These are the
\* guards of the actions other than HostSend.
FirmwareEnabled ==
  \/ pc \in {"idle", "args"} /\ rx # <<>>
  \/ pc = "poll" /\ (polls < MaxPoll \/ BitAnd(wait_round(Board(0)).miso, 1) # 1)
  \/ pc = "flush"

\* A step of the sketch: any step but the host's, which alone counts frames.
FirmwareStep == ncmd' = ncmd

\* The Arduino core calls loop() again and again and nothing preempts it for
\* good: a step of the sketch that stays possible is taken.  This is weak
\* fairness of the sketch's steps, with their enabling condition written
\* out.  The host is under no such obligation.
FirmwareRuns == []<>(~FirmwareEnabled) \/ []<><<FirmwareStep>>_vars

LiveSpec == Init /\ [][Next]_vars /\ FirmwareRuns

----------------------------------------------------------------------------
(* The revision src/unnamed/part_002: the commands > ? h l s r w k n on    *)
(* the fixed chip-select pin SLAVESELECT, with hex decoders that return -1 *)
(* on failure.                                                             *)

CommandTags_part_002 ==
  { COMMAND_HELLO, COMMAND_HELP, COMMAND_BUFFER_CRC, COMMAND_BUFFER_LOAD,
    COMMAND_BUFFER_STORE, COMMAND_FLASH_READ, COMMAND_FLASH_WRITE,
    COMMAND_FLASH_ERASE_SECTOR, COMMAND_FLASH_ERASE_ALL }

\* The lines its COMMAND_HELP prints.
HelpLines_part_002 ==
  <<
     VERSION,
     <<32, 32, 110, 32, 32, 32, 32, 32, 32, 32, 32, 32, 58, 32, 101, 114, 97, 115, 101, 32, 99, 104, 105, 112>>,
     <<32, 32, 107, 88, 88, 88, 88, 88, 88, 88, 88, 32, 58, 32, 101, 114, 97, 115, 101, 32, 52, 107, 32, 115, 101, 99, 116, 111, 114, 32, 88, 88, 88, 88, 88, 88, 88, 88, 32, 40, 104, 101, 120, 41>>,
     <<>>,
     <<32, 32, 114, 88, 88, 88, 88, 88, 88, 88, 88, 32, 58, 32, 114, 101, 97, 100, 32, 50, 53, 54, 98, 32, 112, 97, 103, 101, 32, 88, 88, 88, 88, 88, 88, 88, 88, 32, 40, 104, 101, 120, 41, 32, 116, 111, 32, 98, 117, 102, 102, 101, 114>>,
     <<32, 32, 119, 88, 88, 88, 88, 88, 88, 88, 88, 32, 58, 32, 119, 114, 105, 116, 101, 32, 98, 117, 102, 102, 101, 114, 32, 116, 111, 32, 50, 53, 54, 98, 32, 112, 97, 103, 101, 32, 88, 88, 88, 88, 88, 88, 88, 88, 32, 40, 104, 101, 120, 41>>,
     <<>>,
     <<32, 32, 104, 32, 32, 32, 32, 32, 32, 32, 32, 32, 58, 32, 112, 114, 105, 110, 116, 32, 98, 117, 102, 102, 101, 114, 32, 67, 82, 67, 45, 51, 50>>,
     <<32, 32, 108, 32, 32, 32, 32, 32, 32, 32, 32, 32, 58, 32, 100, 105, 115, 112, 108, 97, 121, 32, 116, 104, 101, 32, 98, 117, 102, 102, 101, 114, 32, 40, 105, 110, 32, 104, 101, 120, 41>>,
     <<32, 32, 115, 66, 66, 66, 66, 66, 66, 66, 66, 32, 58, 32, 108, 111, 97, 100, 32, 116, 104, 101, 32, 98, 117, 102, 102, 101, 114, 32, 119, 105, 116, 104, 32, 50, 53, 54, 98, 32, 111, 102, 32, 100, 97, 116, 97, 32, 66, 66, 66, 66, 66, 66, 66, 66, 46, 46, 46>>,
     <<>>,
     <<69, 120, 97, 109, 112, 108, 101, 115, 58>>,
     <<32, 32, 114, 48, 48, 48, 48, 51, 55, 48, 48, 32, 32, 32, 32, 32, 32, 114, 101, 97, 100, 32, 50, 53, 54, 32, 98, 121, 116, 101, 115, 32, 102, 114, 111, 109, 32, 112, 97, 103, 101, 32, 48, 120, 51, 55, 48, 48, 32, 105, 110, 116, 111, 32, 98, 117, 102, 102, 101, 114>>,
     <<32, 32, 115, 99, 97, 102, 101, 46, 46, 46, 51, 55, 51, 55, 32, 32, 32, 108, 111, 97, 100, 32, 116, 104, 101, 32, 98, 117, 102, 102, 101, 114, 32, 119, 105, 116, 104, 32, 50, 53, 54, 32, 98, 121, 116, 101, 115, 44, 32, 102, 105, 114, 115, 116, 32, 98, 121, 116, 101, 32, 105, 115, 32, 48, 120, 99, 97, 32, 46, 46, 46>>
  >>

\* Its erase_sector up to the call of wait_for_write_enable: the address
\* bytes are (address >> 8) & 0xFF, address & 0xFF, 0.
erase_sector_part_002(m, address) ==
  LET m1 == write_frame(m, <<WREN>>)
      m2 == delay(m1, 10)
  IN write_frame(m2, <<SECTOR_ERASE,
                       BitAnd(address[2] \div 256, 255),
                       BitAnd(address[2], 255),
                       0>>)

\* loop() declares `uint32_t address;` and assigns it nowhere but through
\* read_hex_u32: after a failed decode it holds whatever the stack held.
IndeterminateAddress == { U32Zero, <<0, 1>>, <<41394, 14080>> }

\* k, r, w and s start to read their argument.
CmdArgument_part_002 ==
  /\ \E t \in AddrTags \cup {COMMAND_BUFFER_STORE} : Reads(t)
  /\ pc' = "args"
  /\ log' = <<>>
  /\ i' = 0
  /\ result' = U32Zero
  /\ counter' = 0
  /\ polls' = 0
  /\ trip' = TripNone
  /\ UNCHANGED <<buffer, nCsIo, pinOut, pinHigh, chip, loaded>>

CmdHelp_part_002 ==
  /\ Reads(COMMAND_HELP)
  /\ Returns(println_all(Board(0), HelpLines_part_002))
  /\ result' = U32Zero
  /\ trip' = TripNone

\* No case of its switch matches, the tags of later revisions included.
CmdOther_part_002 ==
  /\ \E t \in Byte \ CommandTags_part_002 : Reads(t)
  /\ Returns(Board(0))
  /\ result' = U32Zero
  /\ trip' = TripNone

\* Not a hex digit.  read_into_buffer sees read_hex_u8 return -1 and returns
\* 0: s echoes the error.  read_hex_u32 returns -1, which `if (!read_hex_u32
\* (&address))` takes for success: k, r and w go on with the address that
\* was never assigned.
ArgumentError_part_002 ==
  /\ ReadsNibble
  /\ Tmp = -1
  /\ IF cmd = COMMAND_BUFFER_STORE
     THEN /\ Returns(Serial_print(Board(0), <<COMMAND_ERROR>>))
          /\ result' = U32Zero
     ELSE \E address \in IndeterminateAddress :
            /\ result' = address
            /\ IF cmd = COMMAND_FLASH_ERASE_SECTOR
               THEN \E b \in 0 .. Forever : Waits(erase_sector_part_002(Board(b), address))
               ELSE IF cmd = COMMAND_FLASH_READ
               THEN Returns(Serial_print(read_page(Board(0), address),
                                         <<COMMAND_FLASH_READ>>))
               ELSE \E b \in 0 .. Forever : Waits(write_page(Board(b), address))
  /\ trip' = TripNone

DoEraseSector_part_002 ==
  /\ LastNibble(COMMAND_FLASH_ERASE_SECTOR)
  /\ result' = Argument
  /\ \E b \in 0 .. Forever : Waits(erase_sector_part_002(Board(b), Argument))
  /\ trip' = TripNone

\* Its r echoes the tag and no CRC.
DoRead_part_002 ==
  /\ LastNibble(COMMAND_FLASH_READ)
  /\ result' = Argument
  /\ Returns(Serial_print(read_page(Board(0), Argument), <<COMMAND_FLASH_READ>>))
  /\ trip' = TripNone

\* Its s echoes the tag and no CRC.
StoreLast_part_002 ==
  /\ LastNibble(COMMAND_BUFFER_STORE)
  /\ result' = Argument
  /\ counter + 1 = PAGE_SIZE
  /\ Returns(Serial_print([Board(0) EXCEPT !.buffer[counter] = Argument[2]],
                          <<COMMAND_BUFFER_STORE>>))
  /\ trip' = TripNone

Next_part_002 ==
  \/ HostSend
  \/ CmdHello
  \/ CmdEraseAll
  \/ CmdArgument_part_002
  \/ CmdBufferLoad
  \/ CmdBufferCrc
  \/ CmdHelp_part_002
  \/ CmdOther_part_002
  \/ ArgumentError_part_002
  \/ ArgumentDigit
  \/ DoEraseSector_part_002
  \/ DoRead_part_002
  \/ DoWrite
  \/ StoreByte
  \/ StoreLast_part_002
  \/ PollBusy
  \/ PollReady
  \/ Flush

Spec_part_002 == Init /\ [][Next_part_002]_vars

----------------------------------------------------------------------------
(* The revision src/unnamed/part_000: the commands > e r w d c l s ? h on  *)
(* the fixed chip-select pin SLAVESELECT, two-byte page addresses, no      *)
(* replies but that of > and the dumps, and a read_nibble that holds       *)
(* Serial.read() in a uint8_t.                                             *)

\* The tags of its switch: > e r w d c l s ? h.
CommandTags_part_000 == {62, 101, 114, 119, 100, 99, 108, 115, 63, 104}

\* The tags whose case calls read_hex or read_nibble: r w l s.
ArgTags_part_000 == {114, 119, 108, 115}

\* The lines its ? and h print.
HelpLines_part_000 ==
  <<
     <<>>,
     <<83, 80, 73, 32, 70, 108, 97, 115, 104, 32, 112, 114, 111, 103, 114, 97, 109, 109, 101, 114>>,
     <<32, 32, 101, 32, 32, 32, 32, 58, 32, 101, 114, 97, 115, 101, 32, 99, 104, 105, 112>>,
     <<32, 32, 115, 88, 88, 88, 32, 58, 32, 101, 114, 97, 115, 101, 32, 52, 107, 32, 115, 101, 99, 116, 111, 114, 32, 88, 88, 88, 32, 40, 104, 101, 120, 41>>,
     <<32, 32, 99, 32, 32, 32, 32, 58, 32, 112, 114, 105, 110, 116, 32, 98, 117, 102, 102, 101, 114, 32, 67, 82, 67, 45, 51, 50>>,
     <<32, 32, 114, 88, 88, 88, 88, 58, 32, 114, 101, 97, 100, 32, 50, 53, 54, 45, 117, 105, 110, 116, 56, 95, 116, 32, 112, 97, 103, 101, 32, 88, 88, 88, 88, 32, 40, 104, 101, 120, 41, 32, 116, 111, 32, 98, 117, 102, 102, 101, 114>>,
     <<32, 32, 119, 88, 88, 88, 88, 58, 32, 119, 114, 105, 116, 101, 32, 98, 117, 102, 102, 101, 114, 32, 116, 111, 32, 50, 53, 54, 45, 117, 105, 110, 116, 56, 95, 116, 32, 112, 97, 103, 101, 32, 88, 88, 88, 88, 32, 40, 104, 101, 120, 41>>,
     <<32, 32, 100, 32, 32, 32, 32, 58, 32, 100, 105, 115, 112, 108, 97, 121, 32, 116, 104, 101, 32, 98, 117, 102, 102, 101, 114, 32, 40, 105, 110, 32, 104, 101, 120, 41>>,
     <<32, 32, 108, 60, 98, 62, 32, 58, 32, 108, 111, 97, 100, 32, 116, 104, 101, 32, 98, 117, 102, 102, 101, 114, 32, 119, 105, 116, 104, 32, 60, 98, 62, 44, 32, 119, 104, 101, 114, 101, 32, 98, 32, 105, 115, 32, 50, 53, 54, 32, 117, 105, 110, 116, 56, 95, 116, 115, 32, 111, 102, 32, 100, 97, 116, 97>>,
     <<>>,
     <<69, 120, 58, 32, 114, 51, 55, 48, 48, 32, 45, 32, 114, 101, 97, 100, 32, 50, 53, 54, 32, 117, 105, 110, 116, 56, 95, 116, 115, 32, 102, 114, 111, 109, 32, 112, 97, 103, 101, 32, 48, 120, 51, 55, 48, 48>>,
     <<69, 120, 58, 32, 108, 99, 97, 102, 101, 91, 46, 46, 46, 93, 51, 55, 51, 55, 32, 45, 32, 108, 111, 97, 100, 32, 116, 104, 101, 32, 98, 117, 102, 102, 101, 114, 32, 119, 105, 116, 104, 32, 50, 53, 54, 32, 117, 105, 110, 116, 56, 95, 116, 115, 44, 32, 102, 105, 114, 115, 116, 32, 117, 105, 110, 116, 56, 95, 116, 32, 48, 120, 99, 97, 46, 46, 46>>
  >>

\* What its setup() leaves in the buffer: CA FE, the rest as the zeroed
\* global.
SetupBuffer_part_000 ==
  [k \in 0 .. PAGE_SIZE - 1 |-> IF k = 0 THEN 202 ELSE IF k = 1 THEN 254 ELSE 0]

RECURSIVE StripZeros(_)
\* The digits without leading zeros, the last one kept.
StripZeros(s) == IF Len(s) > 1 /\ Head(s) = 48 THEN StripZeros(Tail(s)) ELSE s

\* Serial.print(x, HEX) of a uint32_t: upper case, no padding.
print_HEX(x) == StripZeros(write_hex_u16(x[1]) \o write_hex_u16(x[2]))

RECURSIVE dump_loop_part_000(_, _)
dump_loop_part_000(buf, k) ==
  IF k < PAGE_SIZE
  THEN <<write_nibble(buf[k] \div 16), write_nibble(BitAnd(buf[k], 15))>>
         \o dump_loop_part_000(buf, k + 1)
  ELSE <<>>

\* One frame on SLAVESELECT holding the bytes.
frame_part_000(m, bytes) ==
  digitalWrite(SPI_transfers(digitalWrite(m, SS, "LOW"), bytes), SS, "HIGH")

read_page_part_000(m, adr1, adr2) ==
  digitalWrite(read_loop(SPI_transfers(digitalWrite(m, SS, "LOW"),
                                       <<READ, adr1, adr2, 0>>), 0), SS, "HIGH")

\* One round of wait_for_write; the status read is left in m.miso.
wait_round_part_000(m) == frame_part_000(m, <<RDSR, RDSR>>)

\* write_page up to its call of wait_for_write.
write_page_part_000(m, adr1, adr2) ==
  LET m1 == frame_part_000(m, <<WREN>>)
      m2 == delay(m1, 10)
      m3 == digitalWrite(write_loop(SPI_transfers(digitalWrite(m2, SS, "LOW"),
                                                  <<WRITE, adr1, adr2, 0>>), 0),
                         SS, "HIGH")
  IN delay(m3, 1)

\* erase_all up to its call of wait_for_write.
erase_all_part_000(m) ==
  LET m1 == frame_part_000(m, <<WREN>>)
      m2 == delay(m1, 10)
      m3 == frame_part_000(m2, <<CHIP_ERASE>>)
  IN delay(m3, 1)

\* erase_sector up to its call of wait_for_write.
erase_sector_part_000(m, addr1, addr2) ==
  LET m1 == frame_part_000(m, <<WREN>>)
      m2 == delay(m1, 10)
  IN frame_part_000(m2, <<SECTOR_ERASE, addr1, addr2, 0>>)

\* Serial.read(): the next byte, or -1 when none has arrived.
Serial_read_part_000 == IF rx = <<>> THEN -1 ELSE Head(rx)

\* read_nibble for what Serial.read() returned.  `uint8_t nibble` takes the
\* result, so -1 becomes 255; `nibble == -1` compares 255 with -1 and the
\* loop ends after one read.
read_nibble_part_000(c) ==
  LET nibble == IF c = -1 THEN 255 ELSE c
  IN IF nibble >= 65 THEN 9 + BitAnd(nibble, 15) ELSE BitAnd(nibble, 15)

\* read_hex after nibble k of the argument, res = <<addr1, val>>:
\* val = (read_nibble() & 0xf) << 4, then val |= read_nibble().
read_hex_step_part_000(res, k, n) ==
  IF k % 2 = 0 THEN <<res[1], BitAnd(n, 15) * 16>>
  ELSE LET val == BitOr(res[2], n)
       IN <<IF k = 1 THEN val ELSE res[1], val>>

\* Nibbles the case of tag t reads: r and w two read_hex, s a read_hex and
\* a read_nibble, l a read_hex for each byte.
Width_part_000(t) == IF t \in {114, 119} THEN 4 ELSE IF t = 115 THEN 3 ELSE 2

\* Its frames: every command, r with a digit yet to come, a byte that is no
\* tag.
Frames_part_000 ==
  { <<62>>, <<101>>, <<100>>, <<99>>, <<63>>, <<104>>, <<122>>,
    <<114>> \o HostHex(<<0, 0, 0, 1>>, FALSE),
    <<119>> \o HostHex(<<0, 0, 0, 1>>, FALSE),
    <<115>> \o HostHex(<<0, 0, 1>>, FALSE),
    <<108>> \o HostBytesHex(PayloadA, TRUE),
    <<114>> \o HostHex(<<0, 0, 0>>, FALSE),
    <<48>> }

Init_part_000 ==
  /\ buffer = SetupBuffer_part_000
  /\ nCsIo = SS
  /\ pinOut = {SS}
  /\ pinHigh = {SS}
  /\ \E c \in InitChips :
       chip = [flash |-> c[1], wel |-> FALSE, busy |-> 0, nextBusy |-> 0,
               sr1 |-> c[2], sr2 |-> c[3], sr3 |-> c[4], sel |-> FALSE, frame |-> <<>>]
  /\ log = <<>>
  /\ pc = "idle"
  /\ cmd = 0
  /\ rxByte = 0
  /\ held = <<>>
  /\ i = 0
  /\ result = U32Zero
  /\ counter = 0
  /\ polls = 0
  /\ rx = <<>>
  /\ ncmd = 0
  /\ trip = TripNone
  /\ loaded = FALSE

HostSend_part_000 ==
  /\ ncmd < MaxCmds
  /\ rx = <<>>
  /\ pc \in {"idle", "args"} \/ (pc = "poll" /\ polls = MaxPoll)
  /\ \E f \in Frames_part_000 : rx' = f
  /\ ncmd' = ncmd + 1
  /\ UNCHANGED <<buffer, nCsIo, pinOut, pinHigh, chip, log, pc, cmd, rxByte, held, i,
                 result, counter, polls, trip, loaded>>

CmdHello_part_000 ==
  /\ Reads(62)
  /\ Returns(Serial_print(Board(0), <<62>>))
  /\ result' = U32Zero
  /\ trip' = TripNone

CmdEraseAll_part_000 ==
  /\ Reads(101)
  /\ \E b \in 0 .. Forever : Waits(erase_all_part_000(Board(b)))
  /\ result' = U32Zero
  /\ trip' = TripNone

\* r, w, l and s go on to their first read_nibble.
CmdArgument_part_000 ==
  /\ \E t \in ArgTags_part_000 : Reads(t)
  /\ pc' = "args"
  /\ log' = <<>>
  /\ i' = 0
  /\ result' = U32Zero
  /\ counter' = 0
  /\ polls' = 0
  /\ trip' = TripNone
  /\ UNCHANGED <<buffer, nCsIo, pinOut, pinHigh, chip, loaded>>

CmdDumpBuffer_part_000 ==
  /\ Reads(100)
  /\ Returns(Serial_println(Serial_print(Board(0), dump_loop_part_000(buffer, 0)), <<>>))
  /\ result' = U32Zero
  /\ trip' = TripNone

CmdDumpBufferCrc_part_000 ==
  /\ Reads(99)
  /\ Returns(Serial_println(Serial_print(Board(0), print_HEX(crc_buffer(buffer))), <<>>))
  /\ result' = U32Zero
  /\ trip' = TripNone

CmdHelp_part_000 ==
  /\ \E t \in {63, 104} : Reads(t)
  /\ Returns(println_all(Board(0), HelpLines_part_000))
  /\ result' = U32Zero
  /\ trip' = TripNone

CmdOther_part_000 ==
  /\ \E t \in Byte \ CommandTags_part_000 : Reads(t)
  /\ Returns(Board(0))
  /\ result' = U32Zero
  /\ trip' = TripNone

\* read_nibble() takes what Serial.read() returns, a byte or none.
ReadsNibble_part_000 ==
  /\ pc = "args"
  /\ rx' = IF rx = <<>> THEN rx ELSE Tail(rx)
  /\ rxByte' = Serial_read_part_000
  /\ UNCHANGED <<cmd, held, ncmd>>

\* addr1 and the value under construction once that nibble is taken.
Argument_part_000 ==
  read_hex_step_part_000(result, i, read_nibble_part_000(Serial_read_part_000))

LastNibble_part_000(t) ==
  /\ ReadsNibble_part_000
  /\ cmd = t
  /\ i + 1 = Width_part_000(t)

ArgumentNibble_part_000 ==
  /\ ReadsNibble_part_000
  /\ i + 1 < Width_part_000(cmd)
  /\ result' = Argument_part_000
  /\ i' = i + 1
  /\ UNCHANGED <<buffer, nCsIo, pinOut, pinHigh, chip, log, pc, counter, polls, trip, loaded>>

DoRead_part_000 ==
  /\ LastNibble_part_000(114)
  /\ result' = Argument_part_000
  /\ Returns(read_page_part_000(Board(0), Argument_part_000[1], Argument_part_000[2]))
  /\ trip' = TripNone

DoWrite_part_000 ==
  /\ LastNibble_part_000(119)
  /\ result' = Argument_part_000
  /\ \E b \in 0 .. Forever :
       Waits(write_page_part_000(Board(b), Argument_part_000[1], Argument_part_000[2]))
  /\ trip' = TripNone

DoEraseSector_part_000 ==
  /\ LastNibble_part_000(115)
  /\ result' = Argument_part_000
  /\ \E b \in 0 .. Forever :
       Waits(erase_sector_part_000(Board(b), Argument_part_000[1], Argument_part_000[2]))
  /\ trip' = TripNone

\* load_buffer: buffer[counter] = read_hex(), not the last byte.
LoadByte_part_000 ==
  /\ LastNibble_part_000(108)
  /\ counter + 1 < PAGE_SIZE
  /\ buffer' = [buffer EXCEPT ![counter] = Argument_part_000[2]]
  /\ counter' = counter + 1
  /\ i' = 0
  /\ result' = U32Zero
  /\ UNCHANGED <<nCsIo, pinOut, pinHigh, chip, log, pc, polls, trip, loaded>>

\* load_buffer: the last byte; l sends nothing.
LoadLast_part_000 ==
  /\ LastNibble_part_000(108)
  /\ counter + 1 = PAGE_SIZE
  /\ result' = Argument_part_000
  /\ Returns([Board(0) EXCEPT !.buffer[counter] = Argument_part_000[2]])
  /\ trip' = TripNone

\* wait_for_write: the status read has bit 0 set.
PollBusy_part_000 ==
  /\ pc = "poll"
  /\ polls < MaxPoll
  /\ LET m == wait_round_part_000(Board(0))
     IN /\ BitAnd(m.miso, 1) = 1
        /\ Becomes(m)
  /\ polls' = polls + 1
  /\ UNCHANGED <<pc, cmd, rxByte, held, i, result, counter, rx, ncmd, trip, loaded>>

\* wait_for_write: the status read has bit 0 clear; the command sends nothing.
PollReady_part_000 ==
  /\ pc = "poll"
  /\ LET m == wait_round_part_000(Board(0))
     IN /\ BitAnd(m.miso, 1) # 1
        /\ Returns(m)
  /\ UNCHANGED <<cmd, rxByte, held, result, rx, ncmd, trip>>

Next_part_000 ==
  \/ HostSend_part_000
  \/ CmdHello_part_000
  \/ CmdEraseAll_part_000
  \/ CmdArgument_part_000
  \/ CmdDumpBuffer_part_000
  \/ CmdDumpBufferCrc_part_000
  \/ CmdHelp_part_000
  \/ CmdOther_part_000
  \/ ArgumentNibble_part_000
  \/ DoRead_part_000
  \/ DoWrite_part_000
  \/ DoEraseSector_part_000
  \/ LoadByte_part_000
  \/ LoadLast_part_000
  \/ PollBusy_part_000
  \/ PollReady_part_000
  \/ Flush

Spec_part_000 == Init_part_000 /\ [][Next_part_000]_vars

----------------------------------------------------------------------------
(* Reading the log of a command.                                           *)

\* The bytes of the reply so far.
Reply == Out(log)

\* How many bytes of seq are in the set S.
Count(seq, S) == Cardinality({k \in 1 .. Len(seq) : seq[k] \in S})

\* The ASCII hex digits 0-9, A-F, a-f.
HexDigits == (48 .. 57) \cup (65 .. 70) \cup (97 .. 102)

\* Every tag of the protocol, the error tag included.
AllTags == CommandTags \cup {COMMAND_ERROR}

RECURSIVE FramesIn(_, _, _, _)
\* The chip-select frames on pin p in the events l: each frame is the
\* sequence of bytes sent while p was low.  cur is the frame being read.
FramesIn(l, p, cur, open) ==
  IF l = <<>> THEN (IF open THEN <<cur>> ELSE <<>>)
  ELSE LET e == Head(l) IN
       IF e[1] = "pin" /\ e[2] = p /\ e[3] = "LOW"
       THEN (IF open THEN <<cur>> ELSE <<>>) \o FramesIn(Tail(l), p, <<>>, TRUE)
       ELSE IF e[1] = "pin" /\ e[2] = p /\ e[3] = "HIGH"
       THEN (IF open THEN <<cur>> ELSE <<>>) \o FramesIn(Tail(l), p, <<>>, FALSE)
       ELSE IF e[1] = "spi"
       THEN FramesIn(Tail(l), p, Append(cur, e[2]), TRUE)
       ELSE FramesIn(Tail(l), p, cur, open)

\* The frames of the command in progress.
SpiFrames == FramesIn(log, nCsIo, <<>>, FALSE)

\* The events of the log that touch the chip.
ChipEvents == SelectSeq(log, LAMBDA e : e[1] \in {"pin", "spi"})

\* The address bytes ReadPage and WritePage send for the argument A.
PageAddress(A) == <<(A[2] \div 256) % 256, A[2] % 256, 0>>

----------------------------------------------------------------------------
(* C1 (as claimed): every recognised command, Hello and Help included,     *)
(* replies with exactly one acknowledgment byte, first in the reply: its   *)
(* own tag or the error tag.                                               *)
C1_OneAckEveryCommand ==
  (pc = "flush" /\ cmd \in CommandTags) =>
     /\ Reply # <<>>
     /\ Reply[1] \in {cmd, COMMAND_ERROR}
     /\ Count(Reply, {cmd, COMMAND_ERROR}) = 1

(* C1 (amended): every recognised command but Help starts its reply with   *)
(* its own tag, or with the error tag exactly when a byte of its argument  *)
(* was no hex digit, and sends no other acknowledgment byte, except that   *)
(* Hello sends its tag a second time after the version line; Help sends    *)
(* the help text alone, which starts with the version, not with a tag,    *)
(* and holds no '?' at all.                                                *)
C1_OneAckButHelloHelp ==
  /\ (cmd \in CommandTags \ {COMMAND_HELP}) =>
        Count(Reply, {cmd, COMMAND_ERROR}) <= (IF cmd = COMMAND_HELLO THEN 2 ELSE 1)
  /\ (pc = "flush" /\ cmd \in CommandTags \ {COMMAND_HELP}) =>
        /\ Reply # <<>>
        /\ Reply[1] = (IF cmd \in ArgTags /\ rxByte \notin HexDigits
                       THEN COMMAND_ERROR ELSE cmd)
        /\ (Reply[1] = COMMAND_ERROR => Reply = <<COMMAND_ERROR>>)
        /\ Count(Reply, {cmd, COMMAND_ERROR}) = (IF cmd = COMMAND_HELLO THEN 2 ELSE 1)
  /\ (pc = "flush" /\ cmd = COMMAND_HELLO) =>
        Reply = <<COMMAND_HELLO>> \o VERSION \o CRLF \o <<COMMAND_HELLO>>
  /\ (pc = "flush" /\ cmd = COMMAND_HELP) =>
        /\ SubSeq(Reply, 1, Len(VERSION)) = VERSION
        /\ Reply[1] \notin {COMMAND_HELP, COMMAND_ERROR}
        /\ Count(Reply, {COMMAND_HELP}) = 0

\* Hello has replied: two '>' in one reply.
C1_Witness ==
  pc = "flush" /\ cmd = COMMAND_HELLO /\ Count(Reply, {COMMAND_HELLO}) = 2

----------------------------------------------------------------------------
(* C2: when a byte of the argument of k, r or w is no hex digit, the       *)
(* command replies '!' and nothing else, and no step of the command, from  *)
(* its tag to that reply, drives a pin, transfers a byte on SPI or changes *)
(* the buffer or the chip.                                                 *)
C2_MalformedAddressNoChipOp ==
  [][ (pc = "args" /\ cmd \in AddrTags) =>
        /\ (rx # <<>> /\ rx' # rx /\ Head(rx) \notin HexDigits) =>
              /\ pc' = "flush"
              /\ log' = <<<<"tx", COMMAND_ERROR>>>>
        /\ (rx = <<>> \/ rx' = rx \/ Head(rx) \notin HexDigits \/ i + 1 < 8) =>
              /\ buffer' = buffer
              /\ chip' = chip
              /\ pinOut' = pinOut /\ pinHigh' = pinHigh /\ nCsIo' = nCsIo
              /\ ChipEvents' = <<>>
    ]_vars

\* WritePage has replied '!' to a bad digit.
C2_Witness ==
  /\ pc = "flush" /\ cmd = COMMAND_FLASH_WRITE /\ Reply = <<COMMAND_ERROR>>
  /\ rxByte \notin HexDigits

----------------------------------------------------------------------------
(* C3 (as claimed): when BufferStore replies '!', the buffer holds what it *)
(* held before the command.                                                *)
C3_StoreAtomicOrReject ==
  (pc = "flush" /\ cmd = COMMAND_BUFFER_STORE /\ Reply = <<COMMAND_ERROR>>) =>
     buffer = held

----------------------------------------------------------------------------
(* C4: a byte that is no command tag, read while the dispatcher is idle,   *)
(* is taken off the wire with no reply and no effect on the buffer, the    *)
(* pins or the chip, and the dispatcher then returns to idle.              *)
C4_UnknownByteIgnored ==
  [][ /\ (pc = "idle" /\ rx # <<>> /\ Head(rx) \notin CommandTags) =>
           /\ rx' = Tail(rx)
           /\ pc' = "flush"
           /\ log' = <<>>
           /\ buffer' = buffer /\ chip' = chip
           /\ nCsIo' = nCsIo /\ pinOut' = pinOut /\ pinHigh' = pinHigh
      /\ (pc = "flush" /\ cmd \notin CommandTags) =>
           /\ pc' = "idle"
           /\ log' = <<>>
           /\ rx' = rx
           /\ buffer' = buffer /\ chip' = chip
           /\ nCsIo' = nCsIo /\ pinOut' = pinOut /\ pinHigh' = pinHigh
    ]_vars

\* The dispatcher has read a 'z' as a tag.
C4_Witness == pc = "flush" /\ cmd = 122 /\ log = <<>>

----------------------------------------------------------------------------
(* C5: no byte is both a tag (the error tag included) and a byte that      *)
(* read_nibble decodes; read_nibble decodes exactly 0-9, a-f and A-F; so   *)
(* a command whose argument ends with a tag byte replies '!' alone.        *)
C5_TagsDisjointFromHex ==
  /\ (pc \in {"poll", "flush"} /\ cmd \in ArgTags /\ rxByte \in AllTags) =>
        Reply = <<COMMAND_ERROR>>
  /\ (pc = "idle" /\ ncmd = 0) =>
        /\ \A b \in AllTags : read_nibble(b) = -1
        /\ \A b \in Byte : (read_nibble(b) # -1) <=> (b \in HexDigits)

\* ReadPage has taken the tag 'n' for a digit of its argument and refused it.
C5_Witness ==
  /\ pc = "flush" /\ cmd = COMMAND_FLASH_READ /\ rxByte = COMMAND_FLASH_ERASE_ALL
  /\ Reply = <<COMMAND_ERROR>>

----------------------------------------------------------------------------
(* C6: after BufferStore(P), WritePage(A) on an erased page and            *)
(* ReadPage(A), one after the other and with the chip leaving busy, the    *)
(* buffer holds P and the reply to 'r' carries the CRC the reply to 's'    *)
(* carried.                                                                *)
C6_WriteReadRoundTrip ==
  (trip.stage = 3) =>
     /\ buffer = trip.P
     /\ (pc = "flush") => Reply = <<COMMAND_FLASH_READ>> \o trip.crc

\* The round trip has run with a P that has programmed bits: the page of the
\* chip now holds P.
C6_Witness ==
  /\ trip.stage = 3 /\ pc = "flush"
  /\ trip.P # ErasedPage
  /\ chip.flash[HostPage(trip.A)] = trip.P

----------------------------------------------------------------------------
(* C7 (as claimed): 'r' sends the low 24 bits of its argument as the SPI   *)
(* address, so r00003700 reads flash byte offset 0x3700.                   *)
C7_ReadByByteOffset ==
  (pc = "flush" /\ cmd = COMMAND_FLASH_READ /\ Reply # <<COMMAND_ERROR>>) =>
     SubSeq(SpiFrames[1], 2, 4) = <<result[1] % 256, result[2] \div 256, result[2] % 256>>

(* C7 (amended): 'r' takes its argument as a page number: the SPI address  *)
(* sent is bits 15..8 of the argument, bits 7..0 of the argument, and 0,   *)
(* so r00003700 addresses page 0x3700 (flash byte offset 0x370000); the    *)
(* buffer takes the bytes the chip returns in that one READ frame, in      *)
(* order, and the reply and a following 'h' carry the CRC of those bytes.  *)
C7_ReadByPageNumber ==
  /\ (pc = "flush" /\ cmd = COMMAND_FLASH_READ /\ Reply # <<COMMAND_ERROR>>) =>
        LET spi == SelectSeq(log, LAMBDA e : e[1] = "spi")
        IN /\ Len(SpiFrames) = 1
           /\ SpiFrames[1] = <<READ>> \o PageAddress(result)
                               \o [k \in 1 .. PAGE_SIZE |-> 255]
           /\ \A k \in 0 .. PAGE_SIZE - 1 : buffer[k] = spi[5 + k][3]
           /\ Reply = <<COMMAND_FLASH_READ>> \o dump_buffer_crc(buffer)
  /\ (pc = "flush" /\ cmd = COMMAND_BUFFER_CRC) =>
        Reply = <<COMMAND_BUFFER_CRC>> \o dump_buffer_crc(buffer) \o CRLF

\* r00003700 has read page 0x3700 of a chip that holds data.
C7_Witness ==
  /\ pc = "flush" /\ cmd = COMMAND_FLASH_READ /\ result = <<0, 14080>>
  /\ Reply # <<COMMAND_ERROR>>
  /\ chip.flash = PatternFlash
  /\ SubSeq(SpiFrames[1], 2, 4) = <<55, 0, 0>>
  /\ buffer = chip.flash[HostPage(result)]

----------------------------------------------------------------------------
----------------------------------------------------------------------------
(* C9: in EraseAll, EraseSector and WritePage the first frame holds only   *)
(* WREN, the second frame is the erase or program frame, every later frame *)
(* is a status read, and one status read at least follows before the       *)
(* reply; the program frame is WRITE, three address bytes and the buffer   *)
(* bytes in index order.                                                   *)
C9_WriteEnableThenOperationThenPoll ==
  (pc \in {"poll", "flush"} /\ cmd \in EchoAfterWait /\ Reply # <<COMMAND_ERROR>>) =>
     /\ Len(SpiFrames) >= 2
     /\ SpiFrames[1] = <<WREN>>
     /\ SpiFrames[2] =
          (IF cmd = COMMAND_FLASH_ERASE_ALL THEN <<CHIP_ERASE>>
           ELSE IF cmd = COMMAND_FLASH_ERASE_SECTOR
           THEN <<SECTOR_ERASE>> \o SubSeq(SpiFrames[2], 2, 4)
           ELSE <<WRITE>> \o PageAddress(result)
                \o [k \in 1 .. PAGE_SIZE |-> buffer[k - 1]])
     /\ Len(SpiFrames[2]) =
          (IF cmd = COMMAND_FLASH_ERASE_ALL THEN 1
           ELSE IF cmd = COMMAND_FLASH_ERASE_SECTOR THEN 4 ELSE 4 + PAGE_SIZE)
     /\ \A k \in 3 .. Len(SpiFrames) : SpiFrames[k] = <<RDSR, RDSR>>
     /\ (pc = "poll") => Len(SpiFrames) = 2 + polls
     /\ (pc = "flush") => Len(SpiFrames) >= 3
     /\ Count([k \in 1 .. Len(ChipEvents) |-> ChipEvents[k][1]], {"pin"})
          = 2 * Len(SpiFrames)

\* WritePage has programmed a page and replied.
C9_Witness ==
  /\ pc = "flush" /\ cmd = COMMAND_FLASH_WRITE /\ Reply = <<COMMAND_FLASH_WRITE>>
  /\ Len(SpiFrames) = 4

----------------------------------------------------------------------------
(* C10: EraseAll, EraseSector and WritePage echo their tag only after a    *)
(* status read that came after the operation and had the busy bit clear;   *)
(* while the chip stays busy the dispatcher stays in the wait, sends       *)
(* nothing and reads no byte from the host.                                *)
C10_AckOnlyAfterReady ==
  (cmd \in EchoAfterWait /\ Reply # <<>> /\ Reply # <<COMMAND_ERROR>>) =>
     LET spi == SelectSeq(log, LAMBDA e : e[1] = "spi")
         last == log[Len(log) - 2]
     IN /\ Reply = <<cmd>>
        /\ log[Len(log)] = <<"tx", cmd>>
        /\ log[Len(log) - 1] = <<"pin", nCsIo, "HIGH">>
        /\ last[1] = "spi" /\ last[2] = RDSR /\ last[3] % 2 = 0
        /\ SpiFrames[Len(SpiFrames)] = <<RDSR, RDSR>>
        /\ Len(SpiFrames) >= 3

C10_HangsWhileBusy ==
  (pc = "poll" /\ chip.busy = Forever) =>
     /\ pc' = "poll"
     /\ Out(log') = Reply
     /\ rx' = rx \/ rx = <<>>
     /\ cmd' = cmd

C10_AckAfterReadyElseHang == [][C10_AckOnlyAfterReady' /\ C10_HangsWhileBusy]_vars

\* The chip is stuck busy in a WritePage: no reply, and the next command of
\* the host lies unread.
C10_Witness ==
  /\ pc = "poll" /\ cmd = COMMAND_FLASH_WRITE /\ chip.busy = Forever
  /\ polls = MaxPoll /\ rx # <<>> /\ Reply = <<>>

----------------------------------------------------------------------------
\* read_nibble waits for a byte the host has not sent.
Starved == pc = "args" /\ rx = <<>>

\* The wait polls a chip that never leaves busy.
StuckBusy == pc = "poll" /\ chip.busy = Forever

(* C11: a command that has been dispatched comes back to idle, unless it   *)
(* waits for an argument byte that has not arrived or for a chip that      *)
(* stays busy for ever; and an idle dispatcher with a byte to read always  *)
(* dispatches it: no state ends the loop.                                  *)
C11_DispatchedCommandCompletes ==
  /\ (pc # "idle") ~> (pc = "idle" \/ Starved \/ StuckBusy)
  /\ (pc = "idle" /\ rx # <<>>) ~> (pc # "idle")

\* Both frames of the host have been served, a wait on the chip included,
\* and the dispatcher is idle again.
C11_Witness ==
  /\ pc = "idle" /\ ncmd = MaxCmds /\ rx = <<>>
  /\ buffer # PoisonBuffer
  /\ chip.flash \notin {ErasedFlash, PatternFlash}

----------------------------------------------------------------------------
\* The index in the log of the first byte of the reply, or 0.
FirstTx ==
  IF \E k \in 1 .. Len(log) : log[k][1] = "tx"
  THEN CHOOSE k \in 1 .. Len(log) :
         log[k][1] = "tx" /\ \A j \in 1 .. k - 1 : log[j][1] # "tx"
  ELSE 0

(* C12 (as claimed): once a command has written the first byte of its      *)
(* reply, its chip operation is over: no chip-select change and no SPI     *)
(* transfer follows that byte, and the command is not in the status poll.  *)
C12_ExecutionPrecedesReply ==
  (cmd \in CommandTags /\ FirstTx # 0) =>
     /\ pc = "flush"
     /\ \A k \in FirstTx .. Len(log) : log[k][1] \notin {"pin", "spi"}

----------------------------------------------------------------------------
(* The reference CRC-32: reflected, polynomial 0xEDB88320, initial value   *)
(* 0xFFFFFFFF, final complement, one bit at a time.                        *)

Crc32Poly == <<60856, 33568>>

U32Shr1(x) == <<x[1] \div 2, (x[2] \div 2) + (x[1] % 2) * 32768>>

RECURSIVE Crc32Bits(_, _)
\* n more bits of the byte already XORed into crc.
Crc32Bits(crc, n) ==
  IF n = 0 THEN crc
  ELSE Crc32Bits(IF crc[2] % 2 = 1 THEN U32Xor(U32Shr1(crc), Crc32Poly)
                 ELSE U32Shr1(crc), n - 1)

RECURSIVE Crc32Bytes(_, _, _)
Crc32Bytes(buf, k, crc) ==
  IF k < PAGE_SIZE
  THEN Crc32Bytes(buf, k + 1, Crc32Bits(<<crc[1], BitXor(crc[2], buf[k])>>, 8))
  ELSE crc

Crc32Reference(buf) == U32Not(Crc32Bytes(buf, 0, <<65535, 65535>>))

\* Buffers of bytes with no, one, the top and all bits set; the all-zero
\* buffer is one of them.
CrcSamples == [0 .. PAGE_SIZE - 1 -> {0, 1, 128, 255}]

(* C13: crc_buffer returns the reference CRC-32 of the buffer, for the     *)
(* buffer every command leaves behind and for every sample buffer, the     *)
(* all-zero buffer included.                                               *)
C13_CrcIsStandardCrc32 ==
  /\ pc = "idle" => crc_buffer(buffer) = Crc32Reference(buffer)
  /\ (pc = "idle" /\ ncmd = 0) =>
        \A b \in CrcSamples : crc_buffer(b) = Crc32Reference(b)

\* BufferCrc has reported the reference CRC-32 of a buffer the host stored.
C13_Witness ==
  /\ pc = "flush" /\ cmd = COMMAND_BUFFER_CRC
  /\ buffer = [k \in 0 .. PAGE_SIZE - 1 |-> PayloadA[k + 1]]
  /\ Reply = <<COMMAND_BUFFER_CRC>>
               \o write_hex_u16(Crc32Reference(buffer)[1])
               \o write_hex_u16(Crc32Reference(buffer)[2]) \o CRLF

----------------------------------------------------------------------------
(* C14: when the host sends the digits of a BufferLoad reply back as the   *)
(* argument of BufferStore, in upper or in lower case, the store succeeds: *)
(* it replies s and the CRC the buffer had at the load, and the buffer     *)
(* holds what it held at the load.                                         *)
C14_HexRoundTrip ==
  [][ (trip.stage = 4 /\ pc = "args" /\ pc' = "flush") =>
        /\ trip'.stage = 5
        /\ buffer' = trip.P
        /\ Out(log') = <<COMMAND_BUFFER_STORE>> \o trip.crc
        /\ crc_buffer(buffer') = crc_buffer(trip.P) ]_vars

\* Digits with letters have come back in lower case and the store has
\* succeeded on a buffer that is not the one setup() left.
C14_Witness ==
  /\ pc = "flush" /\ cmd = COMMAND_BUFFER_STORE /\ trip.stage = 5
  /\ rxByte \in 97 .. 102
  /\ buffer # PoisonBuffer
  /\ \E k \in 0 .. PAGE_SIZE - 1 : buffer[k] \div 16 >= 10

----------------------------------------------------------------------------
\* The value of a hex digit on the wire.
DigitValue(c) == IF c \in 48 .. 57 THEN c - 48 ELSE IF c \in 65 .. 70 THEN c - 55 ELSE c - 87

\* Four digits read as a 16-bit number, most significant digit first.
Hex16(d) == DigitValue(d[1]) * 4096 + DigitValue(d[2]) * 256
            + DigitValue(d[3]) * 16 + DigitValue(d[4])

\* The pages the host's store frames carry.
StoredPages == { [k \in 0 .. PAGE_SIZE - 1 |-> P[k + 1]] : P \in {PayloadA, PayloadB} }

(* C15: a reply that starts with the tag of h, s or r goes on with exactly *)
(* 8 hex digits (h ends the line after them), which read high 16 bits      *)
(* first, most significant digit first, are the CRC of the buffer; after s *)
(* the buffer holds the bytes the host sent, after r the bytes the chip    *)
(* sent.                                                                   *)
C15_CrcReplyBigEndian ==
  (/\ pc = "flush"
   /\ cmd \in {COMMAND_BUFFER_CRC, COMMAND_BUFFER_STORE, COMMAND_FLASH_READ}
   /\ Reply # <<>> /\ Reply[1] = cmd) =>
     /\ Len(Reply) >= 9
     /\ \A k \in 2 .. 9 : Reply[k] \in HexDigits
     /\ SubSeq(Reply, 10, Len(Reply)) = IF cmd = COMMAND_BUFFER_CRC THEN CRLF ELSE <<>>
     /\ <<Hex16(SubSeq(Reply, 2, 5)), Hex16(SubSeq(Reply, 6, 9))>> = crc_buffer(buffer)
     /\ cmd = COMMAND_BUFFER_STORE =>
          buffer \in StoredPages \/ (trip.stage = 5 /\ buffer = trip.P)
     /\ cmd = COMMAND_FLASH_READ =>
          LET spi == SelectSeq(log, LAMBDA e : e[1] = "spi")
          IN \A k \in 0 .. PAGE_SIZE - 1 : buffer[k] = spi[5 + k][3]

\* A store has replied with a CRC whose two halves differ.
C15_Witness ==
  /\ pc = "flush" /\ cmd = COMMAND_BUFFER_STORE
  /\ Reply # <<>> /\ Reply[1] = COMMAND_BUFFER_STORE
  /\ buffer \in StoredPages
  /\ crc_buffer(buffer)[1] # crc_buffer(buffer)[2]
  /\ Hex16(SubSeq(Reply, 2, 5)) = crc_buffer(buffer)[1]

----------------------------------------------------------------------------
\* What Help and Hello send: text that the sketch holds as literals.
HelpText == Out(println_all([log |-> <<>>], HelpLines).log)
HelloText == <<COMMAND_HELLO>> \o VERSION \o CRLF \o <<COMMAND_HELLO>>

\* The longest reply that carries a CRC: h, 8 digits, CR, LF.
CrcReplyLen == 1 + 8 + Len(CRLF)

----------------------------------------------------------------------------
(* C17 (as claimed): when a command has changed the buffer, the command is *)
(* ReadPage or BufferStore and it has succeeded: its reply starts with its *)
(* own tag.                                                                *)
C17_OnlySuccessfulReadAndStoreChange ==
  (pc \in {"poll", "flush"} /\ buffer # held) =>
     /\ cmd \in {COMMAND_FLASH_READ, COMMAND_BUFFER_STORE}
     /\ Reply # <<>> /\ Reply[1] = cmd

\* What does hold: a command other than ReadPage and BufferStore leaves the
\* buffer as it found it.
C17_OtherCommandsKeepBuffer ==
  (pc \in {"poll", "flush"} /\ cmd \notin {COMMAND_FLASH_READ, COMMAND_BUFFER_STORE}) =>
     buffer = held

----------------------------------------------------------------------------
\* The bytes the chip has sent in the command so far.
MisoBytes == LET spi == SelectSeq(log, LAMBDA e : e[1] = "spi")
             IN [k \in 1 .. Len(spi) |-> spi[k][3]]

(* C18: a write-protection check that follows a completed write-protection *)
(* enable and reads WPS clear replies x, a configuration byte and 02, the  *)
(* class Full: it has read all block-protect bits set and the              *)
(* complement-protect bit clear.                                           *)
C18_EnableThenCheckReportsFull ==
  (pc = "flush" /\ cmd = COMMAND_WRITE_PROTECTION_CHECK /\ trip.stage = 7
   /\ BitAnd(MisoBytes[6], WPS \div 65536) = 0) =>
     /\ Len(Reply) = 5
     /\ Reply[1] = COMMAND_WRITE_PROTECTION_CHECK
     /\ SubSeq(Reply, 4, 5) = <<48, 50>>
     /\ BitAnd(MisoBytes[2], BP) = BP
     /\ BitAnd(MisoBytes[4], CP \div 256) = 0

\* Enable, then check, on the chip that powered up with all block-protect
\* bits and the complement-protect bit set, which a check reports as None.
C18_Witness ==
  /\ pc = "flush" /\ cmd = COMMAND_WRITE_PROTECTION_CHECK /\ trip.stage = 7
  /\ chip.flash = PatternFlash
  /\ BitAnd(MisoBytes[6], WPS \div 65536) = 0
  /\ SubSeq(Reply, 4, 5) = <<48, 50>>

----------------------------------------------------------------------------
(* The classification of the three status bytes, written from the table:   *)
(* Locked iff SRP1; Partial if WPS; otherwise the block-protect bits,       *)
(* complemented when CP is set, are all set (Full), all clear (None) or    *)
(* neither (Partial).                                                      *)

ConfigurationClass(s2) ==
  IF (s2 \div (SRP1 \div 256)) % 2 = 1
  THEN WRITE_PROTECTION_CONFIGURATION_LOCKED ELSE WRITE_PROTECTION_CONFIGURATION_NONE

ProtectionClass(s1, s2, s3) ==
  LET bp == BitAnd(s1, BP)
      effective == IF (s2 \div (CP \div 256)) % 2 = 1 THEN BP - bp ELSE bp
  IN IF (s3 \div (WPS \div 65536)) % 2 = 1 THEN WRITE_PROTECTION_PARTIAL
     ELSE IF effective = BP THEN WRITE_PROTECTION_FULL
     ELSE IF effective = 0 THEN WRITE_PROTECTION_NONE
     ELSE WRITE_PROTECTION_PARTIAL

\* The reply to x for the three status bytes: the tag and two bytes of two
\* digits each.
CheckReply(s1, s2, s3) ==
  <<COMMAND_WRITE_PROTECTION_CHECK,
    48, 48 + ConfigurationClass(s2), 48, 48 + ProtectionClass(s1, s2, s3)>>

\* Status bytes: every value of the block-protect bits, of SRP1 and CP and
\* of WPS, with the other bits all clear or all set.
SR1Samples == { bp * 4 + other : bp \in 0 .. 7, other \in {0, 224} }
SR2Samples == { srp + cp + other : srp \in {0, 1}, cp \in {0, 4}, other \in {0, 250} }
SR3Samples == { wps + other : wps \in {0, 4}, other \in {0, 251} }

(* C19: the reply to x is the tag and exactly two classification bytes,    *)
(* those of the table for the status bytes the chip has sent; and so for   *)
(* every sample of the three status registers.                             *)
C19_CheckClassifiesStatus ==
  /\ (pc = "flush" /\ cmd = COMMAND_WRITE_PROTECTION_CHECK) =>
        Reply = CheckReply(MisoBytes[2], MisoBytes[4], MisoBytes[6])
  /\ (pc = "idle" /\ ncmd = 0) =>
        \A s1 \in SR1Samples, s2 \in SR2Samples, s3 \in SR3Samples :
           Out(impl_write_protection_check(
                 Serial_print([Board(0) EXCEPT !.chip.sr1 = s1, !.chip.sr2 = s2,
                                               !.chip.sr3 = s3],
                              <<COMMAND_WRITE_PROTECTION_CHECK>>)).log)
             = CheckReply(s1, s2, s3)

\* x has reported Locked and None for a chip with SRP1 and CP set and all
\* block-protect bits set.
C19_Witness ==
  /\ pc = "flush" /\ cmd = COMMAND_WRITE_PROTECTION_CHECK
  /\ BitAnd(MisoBytes[2], BP) = BP
  /\ MisoBytes[4] = 5 /\ MisoBytes[6] = 0
  /\ Reply = <<COMMAND_WRITE_PROTECTION_CHECK, 48, 50, 48, 48>>

----------------------------------------------------------------------------
(* C20 (as claimed): as long as no ReadPage has run and no BufferStore has *)
(* succeeded, and outside a BufferStore in progress, the buffer holds what *)
(* setup() left: l replies with those bytes and h with their CRC.          *)
C20_PoisonUntilLoaded ==
  (~loaded /\ pc \in {"idle", "poll", "flush"}) =>
     /\ buffer = PoisonBuffer
     /\ (pc = "flush" /\ cmd = COMMAND_BUFFER_LOAD) =>
           Reply = <<COMMAND_BUFFER_LOAD>> \o dump_buffer(PoisonBuffer) \o CRLF
     /\ (pc = "flush" /\ cmd = COMMAND_BUFFER_CRC) =>
           Reply = <<COMMAND_BUFFER_CRC>> \o dump_buffer_crc(PoisonBuffer) \o CRLF

\* The case of the claim that fails: l after a BufferStore that was refused.
C20_LoadAfterRefusedStore ==
  (~loaded /\ pc = "flush" /\ cmd = COMMAND_BUFFER_LOAD) =>
     Reply = <<COMMAND_BUFFER_LOAD>> \o dump_buffer(PoisonBuffer) \o CRLF

----------------------------------------------------------------------------
(* C21 (as claimed): in the revision part_002, a k, r or w whose argument  *)
(* held a byte that is no hex digit replies ! and does nothing to the      *)
(* chip.                                                                   *)
C21_MalformedAddressRejected_part_002 ==
  (pc \in {"poll", "flush"} /\ cmd \in AddrTags /\ rxByte \notin HexDigits) =>
     /\ Reply = <<COMMAND_ERROR>>
     /\ ChipEvents = <<>>

----------------------------------------------------------------------------
(* C22 (as claimed): whenever loop() waits for a tag, the pin selected as  *)
(* chip-select is an output driven high.                                   *)
C22_ChipSelectHighAtIdle ==
  pc = "idle" => (nCsIo \in pinOut /\ nCsIo \in pinHigh)

----------------------------------------------------------------------------
\* The commands that talk to the chip.
ChipCommands ==
  { COMMAND_FLASH_ERASE_ALL, COMMAND_FLASH_ERASE_SECTOR, COMMAND_FLASH_READ,
    COMMAND_FLASH_WRITE, COMMAND_WRITE_PROTECTION_ENABLE,
    COMMAND_WRITE_PROTECTION_DISABLE, COMMAND_WRITE_PROTECTION_CHECK,
    COMMAND_STATUS_REGISTER_READ, COMMAND_ID_REGISTER_READ }

RECURSIVE WellBracketed(_, _, _)
\* The events l, with pin p low or not before them: p is the only pin
\* written, it goes low only when high and high only when low, every SPI
\* transfer has it low, and it is high after the last event.
WellBracketed(l, p, low) ==
  IF l = <<>> THEN ~low
  ELSE LET e == Head(l) IN
       IF e[1] = "pin"
       THEN /\ e[2] = p
            /\ IF e[3] = "LOW" THEN ~low /\ WellBracketed(Tail(l), p, TRUE)
               ELSE low /\ WellBracketed(Tail(l), p, FALSE)
       ELSE IF e[1] = "spi" THEN low /\ WellBracketed(Tail(l), p, low)
       ELSE WellBracketed(Tail(l), p, low)

(* C23: between the frames of its status poll and when it ends, what a     *)
(* command has done to the chip is a sequence of frames, each a fall of    *)
(* the chip-select pin, SPI transfers and a rise of the pin, and the pin   *)
(* is high; a command that does not talk to the chip makes no transfer.    *)
C23_FramesWellBracketed ==
  (pc \in {"poll", "flush"}) =>
     IF cmd \in ChipCommands /\ Reply # <<COMMAND_ERROR>>
     THEN /\ WellBracketed(log, nCsIo, FALSE)
          /\ nCsIo \in pinHigh
          /\ SpiFrames # <<>>
     ELSE \A k \in 1 .. Len(log) : log[k][1] # "spi"

\* A check of the write protection has run its three frames on pin 9,
\* selected with *.
C23_Witness ==
  /\ pc = "flush" /\ cmd = COMMAND_WRITE_PROTECTION_CHECK
  /\ nCsIo = 9
  /\ Len(SpiFrames) = 3
  /\ WellBracketed(log, 9, FALSE)

----------------------------------------------------------------------------
(* C24: a command tag that arrives where a hex digit is expected ends the  *)
(* pending command with exactly one '!' and nothing done to the chip or    *)
(* the pins, and it is not dispatched: the bytes read next are the         *)
(* remaining digits of the aborted argument, and each of them is read as   *)
(* an unknown command, with no reply and no effect on the buffer, the      *)
(* chip or the pins.                                                       *)
C24_ConsumedByteNeverDispatched ==
  [][ /\ (pc = "args" /\ pc' = "flush" /\ rxByte' \in CommandTags) =>
           /\ Reply' = <<COMMAND_ERROR>>
           /\ ChipEvents' = <<>>
           /\ cmd' = cmd
           /\ UNCHANGED <<chip, nCsIo, pinOut, pinHigh>>
      /\ (trip.stage = 8 /\ pc = "idle" /\ pc' # "idle") =>
           /\ cmd' \in HexDigits
           /\ pc' = "flush"
           /\ log' = <<>>
           /\ UNCHANGED <<buffer, chip, nCsIo, pinOut, pinHigh>>
    ]_vars

\* A digit left over from an argument aborted by a command tag has been
\* read, and nothing has come of it.
C24_Witness ==
  /\ pc = "flush" /\ trip.stage = 8
  /\ cmd \in HexDigits
  /\ log = <<>>

----------------------------------------------------------------------------
(* C25: while a command reads its argument it has sent no reply byte and   *)
(* done nothing to the chip, and while no byte of the argument is          *)
(* available it stays where it is: the digit count, the value decoded so   *)
(* far, the buffer, the chip and the pins do not change.                   *)
C25_ArgumentDecodingBlocks ==
  [][ (pc = "args") =>
        /\ (rx = <<>>) =>
             UNCHANGED <<pc, cmd, i, result, counter, buffer, log, chip,
                         nCsIo, pinOut, pinHigh>>
        /\ (pc' = "args") =>
             /\ Out(log') = <<>>
             /\ ChipEvents' = <<>>
             /\ chip' = chip
    ]_vars

\* A read of a page has three of its eight digits and waits for the others.
C25_Witness ==
  /\ pc = "args" /\ cmd = COMMAND_FLASH_READ
  /\ rx = <<>>
  /\ i = 3
  /\ log = <<>>

----------------------------------------------------------------------------
(* C26: in the revision part_000 every nibble of the argument of r, w and  *)
(* l comes from a byte the host sent: the command never goes on with the   *)
(* "no data" result of Serial.read().                                      *)
C26_NibblesFromSentBytes_part_000 ==
  (pc # "idle" /\ cmd \in {114, 119, 108}) => rxByte # -1

----------------------------------------------------------------------------
\* Address arguments with every byte zero, one or all ones in turn.
AddressSamples ==
  { <<hi, lo>> : hi \in {0, 1, 41394, 65535}, lo \in {0, 1, 255, 256, 14080, 65535} }

\* The bytes sent by the SPI transfers among the events l.
Mosi(l) == LET spi == SelectSeq(l, LAMBDA e : e[1] = "spi")
           IN [k \in 1 .. Len(spi) |-> spi[k][2]]

(* C27: every chip-select frame that starts with READ or with the page     *)
(* program opcode carries 0 as its third address byte and then exactly one *)
(* page of data bytes, whatever the address argument: the transfer starts  *)
(* on a page boundary and ends at the next.                                *)
C27_PageTransfersAligned ==
  /\ (pc \in {"poll", "flush"}) =>
        LET frames == FramesIn(ChipEvents, nCsIo, <<>>, FALSE)
        IN \A k \in 1 .. Len(frames) :
              (frames[k] # <<>> /\ frames[k][1] \in {READ, WRITE}) =>
                 /\ Len(frames[k]) = 4 + PAGE_SIZE
                 /\ frames[k][4] = 0
  /\ (pc = "idle" /\ ncmd = 0) =>
        \A a \in AddressSamples :
           LET rd == Mosi(read_page(Board(0), a).log)
               wr == Mosi(write_page(Board(0), a).log)
           IN /\ rd[1] = READ /\ rd[4] = 0 /\ Len(rd) = 4 + PAGE_SIZE
              /\ wr[2] = WRITE /\ wr[5] = 0 /\ Len(wr) = 1 + 4 + PAGE_SIZE

\* A write of page 1 has sent 02 00 01 00 and the page.
C27_Witness ==
  /\ pc = "flush" /\ cmd = COMMAND_FLASH_WRITE /\ result = <<0, 1>>
  /\ Len(SpiFrames) >= 2
  /\ SubSeq(SpiFrames[2], 1, 4) = <<WRITE, 0, 1, 0>>
  /\ Len(SpiFrames[2]) = 4 + PAGE_SIZE

----------------------------------------------------------------------------
\* The bytes received by the SPI transfers among the events l.
Miso(l) == LET spi == SelectSeq(l, LAMBDA e : e[1] = "spi")
           IN [k \in 1 .. Len(spi) |-> spi[k][3]]

\* The frames fr, with the bytes rd received in them, are those of a change
\* of the write protection: status registers 1 and 2 read; WriteEnable and
\* register 1 written with the block-protect bits all set (on) or all clear
\* and its other bits as read; WriteEnable and register 2 written with the
\* complement-protect bit clear and its other bits as read; status polls.
ProtectFrames(fr, rd, on) ==
  /\ Len(fr) >= 6
  /\ fr[1] = <<RDSR, RDSR>>
  /\ fr[2] = <<RDSR2, RDSR2>>
  /\ fr[3] = <<WREN>>
  /\ Len(fr[4]) = 2 /\ fr[4][1] = WRSR
  /\ BitAnd(fr[4][2], 255 - BP) = BitAnd(rd[2], 255 - BP)
  /\ BitAnd(fr[4][2], BP) = IF on THEN BP ELSE 0
  /\ fr[5] = <<WREN>>
  /\ Len(fr[6]) = 2 /\ fr[6][1] = WRSR2
  /\ BitAnd(fr[6][2], 255 - CP \div 256) = BitAnd(rd[4], 255 - CP \div 256)
  /\ BitAnd(fr[6][2], CP \div 256) = 0
  /\ \A k \in 7 .. Len(fr) : fr[k] = <<RDSR, RDSR>>

----------------------------------------------------------------------------
(* C29: the byte that p and u write to status register 2 has bit 6 clear   *)
(* and its other seven bits as read from the register.                     *)
C29_StatusRegister2Bit6Cleared ==
  (pc \in {"poll", "flush"}
     /\ cmd \in {COMMAND_WRITE_PROTECTION_ENABLE, COMMAND_WRITE_PROTECTION_DISABLE}) =>
     /\ BitAnd(SpiFrames[6][2], 64) = 0
     /\ BitAnd(SpiFrames[6][2], 255 - 64) = BitAnd(MisoBytes[4], 255 - 64)

----------------------------------------------------------------------------
(* C30: a write-protection check that reads WPS clear replies None (00)    *)
(* when it follows a completed disable that followed a completed enable,   *)
(* and Full (02) when it follows a completed enable that followed a        *)
(* completed disable, whatever the protection bits were before.            *)
C30_DisableUndoesEnable ==
  (pc = "flush" /\ cmd = COMMAND_WRITE_PROTECTION_CHECK
     /\ BitAnd(MisoBytes[6], WPS \div 65536) = 0) =>
     /\ (trip.stage = 11) => (Len(Reply) = 5 /\ SubSeq(Reply, 4, 5) = <<48, 48>>)
     /\ (trip.stage = 7 /\ trip.P = <<COMMAND_WRITE_PROTECTION_DISABLE>>) =>
           (Len(Reply) = 5 /\ SubSeq(Reply, 4, 5) = <<48, 50>>)

\* Enable, disable and check on the chip that powered up with all
\* block-protect bits and the complement-protect bit set: the check reports
\* None.
C30_Witness ==
  /\ pc = "flush" /\ cmd = COMMAND_WRITE_PROTECTION_CHECK /\ trip.stage = 11
  /\ chip.flash = PatternFlash
  /\ BitAnd(MisoBytes[6], WPS \div 65536) = 0
  /\ SubSeq(Reply, 4, 5) = <<48, 48>>

\* Disable, enable and check on the chip that powered up with no protection
\* bit set: the check reports Full.
C30_WitnessFull ==
  /\ pc = "flush" /\ cmd = COMMAND_WRITE_PROTECTION_CHECK
  /\ trip.stage = 7 /\ trip.P = <<COMMAND_WRITE_PROTECTION_DISABLE>>
  /\ chip.sr3 = 0
  /\ SubSeq(Reply, 4, 5) = <<48, 50>>

----------------------------------------------------------------------------
\* The pins written among the events l.
PinsWritten(l) ==
  { l[k][2] : k \in { j \in 1 .. Len(l) : l[j][1] = "pin" } }

(* C31: when * ends with its tag, the selected pin is the pin X of its two *)
(* digits; if X is the pin that was selected, no pin mode and no pin level *)
(* changes; otherwise X becomes an output and is driven high, the pin that *)
(* was selected becomes an input unless it is SS, and no other pin changes *)
(* mode or level.  When * ends with '!' the selected pin, the pin modes    *)
(* and the pin levels are as before.  Every command that talks to the chip *)
(* writes no pin but the selected one.                                     *)
C31_SetChipSelect ==
  [][ /\ (pc = "args" /\ cmd = COMMAND_SET_CS /\ pc' = "flush") =>
           IF Reply' = <<COMMAND_ERROR>>
           THEN /\ UNCHANGED <<nCsIo, pinOut, pinHigh>>
                /\ PinsWritten(log') = {}
           ELSE LET X == (result[2] % 16) * 16 + DigitValue(rxByte') IN
                /\ Reply' = <<COMMAND_SET_CS>>
                /\ nCsIo' = X
                /\ IF X = nCsIo
                   THEN /\ UNCHANGED <<pinOut, pinHigh>>
                        /\ PinsWritten(log') = {}
                   ELSE /\ X \in pinOut' /\ X \in pinHigh'
                        /\ PinsWritten(log') = {X}
                        /\ (nCsIo \in pinOut') <=> (nCsIo = SS)
                        /\ pinOut' \ {X, nCsIo} = pinOut \ {X, nCsIo}
                        /\ pinHigh' \ {X, nCsIo} = pinHigh \ {X, nCsIo}
      /\ (pc' \in {"poll", "flush"} /\ cmd' \in ChipCommands) =>
           PinsWritten(log') \subseteq {nCsIo'}
    ]_vars

\* The pin was 9 and * has selected SS again: pin 9 is an input, SS has
\* been driven high.
C31_Witness ==
  /\ pc = "flush" /\ cmd = COMMAND_SET_CS
  /\ Reply = <<COMMAND_SET_CS>>
  /\ nCsIo = SS
  /\ PinsWritten(log) = {SS}
  /\ 9 \notin pinOut
  /\ SS \in pinOut /\ SS \in pinHigh

\* The check of the write protection after *09 has written pin 9 and no
\* other.
C31_WitnessOperation ==
  /\ pc = "flush" /\ cmd = COMMAND_WRITE_PROTECTION_CHECK
  /\ nCsIo = 9
  /\ PinsWritten(log) = {9}

----------------------------------------------------------------------------
\* The writes of pin levels among the events l, in order.
PinWrites(l) == SelectSeq(l, LAMBDA e : e[1] = "pin")

(* C32: when o ends with its tag, the pin XX of its first two digits is an *)
(* output and no other pin has changed mode; if the third digit Y is not 0 *)
(* the pin has been written once, high if the fourth digit Z is not 0 and  *)
(* low if it is, and if Y is 0 no pin has been written; no other pin has   *)
(* changed level and the selected pin is the same.  When o ends with '!'   *)
(* no pin mode and no pin level has changed.                               *)
C32_SetOutput ==
  [][ (pc = "args" /\ cmd = COMMAND_SET_OUTPUT /\ pc' = "flush") =>
        IF Reply' = <<COMMAND_ERROR>>
        THEN /\ UNCHANGED <<nCsIo, pinOut, pinHigh>>
             /\ PinWrites(log') = <<>>
        ELSE LET XX == (result[2] \div 16) % 256
                 Y == result[2] % 16
                 Z == DigitValue(rxByte')
             IN /\ Reply' = <<COMMAND_SET_OUTPUT>>
                /\ nCsIo' = nCsIo
                /\ pinOut' = pinOut \cup {XX}
                /\ IF Y # 0
                   THEN /\ PinWrites(log') =
                             << <<"pin", XX, IF Z # 0 THEN "HIGH" ELSE "LOW">> >>
                        /\ pinHigh' = IF Z # 0 THEN pinHigh \cup {XX}
                                      ELSE pinHigh \ {XX}
                   ELSE /\ PinWrites(log') = <<>>
                        /\ pinHigh' = pinHigh
    ]_vars

\* o0982 has made pin 9 an output and driven it high.
C32_Witness ==
  /\ pc = "flush" /\ cmd = COMMAND_SET_OUTPUT
  /\ Reply = <<COMMAND_SET_OUTPUT>>
  /\ result = <<0, 9 * 256 + 8 * 16 + 2>>
  /\ PinWrites(log) = << <<"pin", 9, "HIGH">> >>
  /\ 9 \in pinOut /\ 9 \in pinHigh

\* o0901 has made pin 9 an output and written no level.
C32_WitnessNoLevel ==
  /\ pc = "flush" /\ cmd = COMMAND_SET_OUTPUT
  /\ Reply = <<COMMAND_SET_OUTPUT>>
  /\ result = <<0, 9 * 256 + 1>>
  /\ PinWrites(log) = <<>>
  /\ 9 \in pinOut /\ 9 \notin pinHigh

====
